---- MODULE Spec2Model ----
(***************************************************************************)
(* The Scheduling & Automation Engine of vestaboard-local:                 *)
(* MessageScheduler (src/src/scheduler.py) over Storage                     *)
(* (src/src/storage.py), the VestaboardClient transport                     *)
(* (src/src/client.py) and the schedule endpoints of src/src/web.py; and    *)
(* its Rendering Engine, the functions of src/src/characters.py.            *)
(*                                                                         *)
(* Time is counted in whole minutes; datetime(2000, 1, 1) is minute 0 and   *)
(* the wall clock starts at minute 1.  Dates are counted in days.           *)
(*                                                                         *)
(* Six specifications:                                                     *)
(*   Spec       the application as web.py runs it (start() once, never     *)
(*              stop()), its trigger side: the primary loop, the schedule  *)
(*              requests, manual runs;                                     *)
(*   SpecLoops  both loops over a store that holds several triggers and    *)
(*              several tracked flights;                                   *)
(*   SpecFlight the flight watcher as web.py runs it;                      *)
(*   SpecLife   MessageScheduler.start() and stop() in any order;          *)
(*   SpecStop   start() once and stop() after it (SpecStopFair: the same   *)
(*              with fair threads; SpecLoopsStop: the same over the store  *)
(*              of SpecLoops);                                             *)
(*   SpecRender the functions of characters.py, each applied to one input  *)
(*              drawn from the texts, widths and line lists of the model.  *)
(***************************************************************************)
EXTENDS Integers, Sequences, FiniteSets, TLC

\* ------------------------------------------------------------------ bounds
MaxTime == 3        \* last minute of the wall clock
MaxDay == 2         \* last day of the calendar
MaxId == 1          \* rows POST /api/schedules may add (Spec)
BootRows == 2       \* rows of each table when the loops start (SpecLoops)
MaxLog == 2         \* the passes and requests that may start are those the log has room for
MaxObs == 3         \* statuses the flight provider reports in one behaviour
MaxThreads == 2     \* thread objects of each kind that start() may create
MaxPieces == 4      \* pieces of a text that is encoded and measured (SpecRender)
MaxWords == 4       \* words of a text that is wrapped
MaxWidth == 5       \* widest wrap of those texts
MaxLines == 7       \* lines given to create_board, words given to format_message

\* --------------------------------------------------------------- constants
None == "None"       \* Python's None where a string may stand
Never == <<>>        \* last_run NULL; a stored last_run is <<minute>>
SENTINEL == 0        \* datetime(2000, 1, 1), the anchor of a trigger that never fired

Threads == 1..MaxThreads
Web == 0             \* the caller that is a request thread of the web server
Callers == Threads \cup {Web}

MessageTypes ==
    {"text", "weather", "stocks", "calendar", "news", "countdowns", "flights"}
\* the content-type tags the requests of the model carry
InputTypes == {"text", "weather", "hologram"}
\* the text a request gives a trigger of message_type (used by "text" alone)
InputContent(message_type) == IF message_type = "text" THEN "HI" ELSE None
\* five-field cron expressions: every minute, every second minute, and a
\* malformed one
InputCrons == {"* * * * *", "*/2 * * * *", "61 * * * *"}
\* where the clock stands still: every minute, and the malformed one
StillCrons == {"* * * * *", "61 * * * *"}

\* Flight statuses that indicate the flight is complete
COMPLETED_STATUSES == {"landed", "cancelled", "diverted"}
\* what the flight provider reports in the model
InputStatuses == {"active", "landed"}
FlightNumbers == {"AA100", "UA5"}
Dates == 1..MaxDay

\* ------------------------------------------------------------------- state
VARIABLES
    now,                 \* the wall clock, datetime.now()
    today,               \* date.today()
    scheduled_messages,  \* table scheduled_messages: id -> row
    flights,             \* the tracked flights of the store
    message_log,         \* table message_log, in insertion order
    running,             \* MessageScheduler._running
    thread,              \* MessageScheduler._thread (0: None)
    flight_thread,       \* MessageScheduler._flight_thread (0: None)
    last_flight_status,  \* MessageScheduler._last_flight_status
    main,                \* the run_loop threads: position, and the locals of the pass
    tracker,             \* the _flight_tracker_loop threads, likewise
    calls,               \* the activations of execute_message, one per caller
    fired,               \* history: per trigger, when a dispatch of it last succeeded
    retry,               \* history: triggers whose last scheduled send failed and that
                         \* nothing has touched since the failing pass read them
    watch,               \* history: per flight key, the statuses observed and sent
    render               \* the Rendering Engine at work on one input (characters.py)

store == <<scheduled_messages, flights, message_log>>
engine == <<running, thread, flight_thread>>
history == <<fired, retry, watch>>
scheduler == <<now, today, store, engine, last_flight_status, main, tracker, calls, history>>
vars == <<scheduler, render>>

\* ------------------------------------------------------------- croniter
\* croniter(expr, base) raises on a malformed expression
CronValid(expr) == expr \in {"* * * * *", "*/2 * * * *"}

CronPeriod(expr) == IF expr = "*/2 * * * *" THEN 2 ELSE 1

\* croniter(expr, base).get_next(): the first occurrence strictly after base
GetNext(expr, base) == ((base \div CronPeriod(expr)) + 1) * CronPeriod(expr)

\* ------------------------------------------------------------- providers
\* what a Content Provider hands back: data, nothing, or an exception
ProviderOutcomes(message_type) ==
    CASE message_type \in {"weather", "stocks", "news"} -> {"data", "none", "raise"}
      [] message_type \in {"calendar", "countdowns", "flights"} -> {"data", "raise"}
      [] OTHER -> {"data"}

\* format_for_board of the provider of message_type
FormatForBoard(message_type) ==
    CASE message_type = "weather" -> <<"SEATTLE", "", "55 RAIN">>
      [] message_type = "stocks" -> <<"MARKETS", "", "AAPL 190">>
      [] message_type = "calendar" -> <<"MONDAY", "MAY 01", "", "NO EVENTS TODAY">>
      [] message_type = "news" -> <<"NEWS", "", "HEADLINE">>
      [] message_type = "countdowns" -> <<"COUNTDOWNS", "", "TRIP 1 DAY">>
      [] OTHER -> <<"FLIGHT TRACKER", "", "NO FLIGHTS">>

\* "\n".join(lines)
RECURSIVE JoinLines(_)
JoinLines(lines) ==
    IF lines = <<>> THEN ""
    ELSE IF Len(lines) = 1 THEN lines[1]
    ELSE lines[1] \o "\n" \o JoinLines(Tail(lines))

\* ------------------------------------------------------------- storage
Row(id, message_type, content, cron_expression, enabled, last_run) ==
    [id |-> id, message_type |-> message_type, content |-> content,
     cron_expression |-> cron_expression, enabled |-> enabled, last_run |-> last_run]

\* Storage.get_scheduled_messages: ORDER BY name; the rows of the model are named
\* in the order of their ids
IsEnabled(row) == row.enabled

get_scheduled_messages(table, enabled_only) ==
    IF enabled_only THEN SelectSeq(table, IsEnabled) ELSE table

\* variant: last_run is set to the occurrence that was due, not to the clock
update_last_run_to_occurrence(table, msg_id, t) ==
    IF msg_id \in DOMAIN table
    THEN [table EXCEPT ![msg_id].last_run =
             <<GetNext(table[msg_id].cron_expression,
                       IF @ = Never THEN SENTINEL ELSE @[1])>>]
    ELSE table

\* variant: the UPDATE is never committed
update_last_run_uncommitted(table, msg_id, t) == table

\* Storage.update_last_run: UPDATE ... SET last_run = now WHERE id = msg_id
update_last_run(table, msg_id, t) ==
    IF msg_id \in DOMAIN table
    THEN [table EXCEPT ![msg_id].last_run = <<t>>]
    ELSE table

\* variant: only what reached the board is logged
log_message_sent_only(log, message_type, content, success) ==
    IF success
    THEN Append(log, [message_type |-> message_type, content |-> content,
                      success |-> success])
    ELSE log

\* Storage.log_message: INSERT INTO message_log
log_message(log, message_type, content, success) ==
    Append(log, [message_type |-> message_type, content |-> content, success |-> success])

\* variant: INSERT OR REPLACE of the whole row, which loses last_run
save_scheduled_message_replace(table, msg) ==
    [table EXCEPT ![msg.id] = Row(msg.id, msg.message_type, msg.content,
                                  msg.cron_expression, msg.enabled, Never)]

\* Storage.save_scheduled_message with msg.id set: every column but last_run
save_scheduled_message(table, msg) ==
    [table EXCEPT ![msg.id] = Row(msg.id, msg.message_type, msg.content,
                                  msg.cron_expression, msg.enabled, @.last_run)]

\* Storage.get_flights(enabled_only=True, include_past=False)
IsTracked(flight, date) == flight.enabled /\ flight.flight_date >= date

RECURSIVE get_flights(_, _)
get_flights(table, date) ==
    IF table = <<>> THEN <<>>
    ELSE (IF IsTracked(Head(table), date) THEN <<Head(table)>> ELSE <<>>)
         \o get_flights(Tail(table), date)

\* ------------------------------------------------------------- flight provider
\* FlightFetcher.fetch: nothing, or a FlightStatus (its airline name may be null)
NotFound == [found |-> FALSE, status |-> None, airline |-> None]
FetchResults ==
    {NotFound} \cup {[found |-> TRUE, status |-> st, airline |-> a] :
                        st \in InputStatuses, a \in {"ALASKA", None}}

\* FlightFetcher.format_for_board(status, flight): airline[:22] raises on null
FormatRaises(status) == status.airline = None

FlightLines(status, flight) ==
    <<flight.flight_number, status.airline, "", status.status>>

\* f"{flight.flight_number}_{flight.flight_date}"
flight_key(flight) == <<flight.flight_number, flight.flight_date>>

Keys == FlightNumbers \X Dates

\* ------------------------------------------------------------- characters
\* A text is a sequence of characters.  A character is written as itself; the
\* characters outside ASCII carry a name: "eszett" (U+00DF), "kelvin" (U+212A),
\* "degree" (U+00B0), "poppet" (U+2588).
ROWS == 6
COLS == 22

\* Character to code mapping
CHAR_CODES ==
    (" " :> 0) @@
    ("A" :> 1) @@ ("B" :> 2) @@ ("C" :> 3) @@ ("D" :> 4) @@ ("E" :> 5) @@
    ("F" :> 6) @@ ("G" :> 7) @@ ("H" :> 8) @@ ("I" :> 9) @@ ("J" :> 10) @@
    ("K" :> 11) @@ ("L" :> 12) @@ ("M" :> 13) @@ ("N" :> 14) @@ ("O" :> 15) @@
    ("P" :> 16) @@ ("Q" :> 17) @@ ("R" :> 18) @@ ("S" :> 19) @@ ("T" :> 20) @@
    ("U" :> 21) @@ ("V" :> 22) @@ ("W" :> 23) @@ ("X" :> 24) @@ ("Y" :> 25) @@
    ("Z" :> 26) @@
    ("1" :> 27) @@ ("2" :> 28) @@ ("3" :> 29) @@ ("4" :> 30) @@ ("5" :> 31) @@
    ("6" :> 32) @@ ("7" :> 33) @@ ("8" :> 34) @@ ("9" :> 35) @@ ("0" :> 36) @@
    ("!" :> 37) @@ ("@" :> 38) @@ ("#" :> 39) @@ ("$" :> 40) @@ ("(" :> 41) @@
    (")" :> 42) @@ ("-" :> 44) @@ ("+" :> 46) @@ ("&" :> 47) @@ ("=" :> 48) @@
    (";" :> 49) @@ (":" :> 50) @@ ("'" :> 52) @@ ("\"" :> 53) @@ ("%" :> 54) @@
    ("," :> 55) @@ ("." :> 56) @@ ("/" :> 59) @@ ("?" :> 60) @@
    ("degree" :> 62) @@ ("poppet" :> 71)

\* Special character codes (colors)
SPECIAL_CODES ==
    (<<"R", "E", "D">> :> 63) @@
    (<<"O", "R", "A", "N", "G", "E">> :> 64) @@
    (<<"Y", "E", "L", "L", "O", "W">> :> 65) @@
    (<<"G", "R", "E", "E", "N">> :> 66) @@
    (<<"B", "L", "U", "E">> :> 67) @@
    (<<"V", "I", "O", "L", "E", "T">> :> 68) @@
    (<<"W", "H", "I", "T", "E">> :> 69) @@
    (<<"B", "L", "A", "C", "K">> :> 70) @@
    (<<"B", "L", "O", "C", "K">> :> 71)

\* str.upper() of one character: a sequence, for one character may become two
LOWER ==
    ("a" :> "A") @@ ("b" :> "B") @@ ("c" :> "C") @@ ("d" :> "D") @@ ("e" :> "E") @@
    ("f" :> "F") @@ ("g" :> "G") @@ ("h" :> "H") @@ ("i" :> "I") @@ ("j" :> "J") @@
    ("k" :> "K") @@ ("l" :> "L") @@ ("m" :> "M") @@ ("n" :> "N") @@ ("o" :> "O") @@
    ("p" :> "P") @@ ("q" :> "Q") @@ ("r" :> "R") @@ ("s" :> "S") @@ ("t" :> "T") @@
    ("u" :> "U") @@ ("v" :> "V") @@ ("w" :> "W") @@ ("x" :> "X") @@ ("y" :> "Y") @@
    ("z" :> "Z")

UpperChar(ch) ==
    IF ch \in DOMAIN LOWER THEN <<LOWER[ch]>>
    ELSE IF ch = "eszett" THEN <<"S", "S">>
    ELSE <<ch>>

\* the sequences of pieces put end to end, from the lo-th to the hi-th
RECURSIVE ConcatRange(_, _, _)
ConcatRange(pieces, lo, hi) ==
    IF lo > hi THEN <<>>
    ELSE IF lo = hi THEN pieces[lo]
    ELSE LET mid == (lo + hi) \div 2
         IN  ConcatRange(pieces, lo, mid) \o ConcatRange(pieces, mid + 1, hi)

Concat(pieces) == ConcatRange(pieces, 1, Len(pieces))

\* text.upper()
upper(text) == Concat([i \in 1..Len(text) |-> UpperChar(text[i])])

\* re.IGNORECASE: the characters that match the letter of a pattern; the Kelvin
\* sign matches K without being K, and its upper() is itself
MatchesLetter(ch, letter) ==
    \/ ch = letter
    \/ UpperChar(ch) = <<letter>>
    \/ ch = "kelvin" /\ letter = "K"

\* SPECIAL_CODE_PATTERN.match(text, i): the names n with "{n}" at position i
\* (no name is the prefix of another, so there is at most one)
PatternMatch(text, i) ==
    IF i > Len(text) \/ text[i] # "{" THEN {}
    ELSE {n \in DOMAIN SPECIAL_CODES :
             /\ i + Len(n) + 1 <= Len(text)
             /\ \A j \in 1..Len(n) : MatchesLetter(text[i + j], n[j])
             /\ text[i + Len(n) + 1] = "}"}

\* the outcome of a call that may raise
Returns(value) == [raised |-> FALSE, value |-> value]
Raises == [raised |-> TRUE, value |-> <<>>]

\* the positions where SPECIAL_CODE_PATTERN matches.  A match is a brace, the
\* letters of a name and a brace, so no match starts inside another: a scan from
\* the left finds every one of them, whether it asks for a match at i and jumps
\* to match.end() (text_to_codes) or runs findall and sub (get_display_length)
Matches(text) == {i \in 1..Len(text) : PatternMatch(text, i) # {}}

\* match.end() - 1: the position of the closing brace of the match at i
MatchEnd(text, i) == i + Len(CHOOSE n \in PatternMatch(text, i) : TRUE) + 1

\* the positions inside a match
Matched(text) ==
    {p \in 1..Len(text) :
        \E i \in 1..p : PatternMatch(text, i) # {} /\ p <= MatchEnd(text, i)}

\* the loop of text_to_codes over the upper-cased text: at a match the code of
\* match.group(1).upper(), a KeyError if SPECIAL_CODES lacks it, and on to
\* match.end(); elsewhere CHAR_CODES.get(char, 0)
ScanCodes(text) ==
    LET code_name(i) == upper(SubSeq(text, i + 1, MatchEnd(text, i) - 1))
        codes(i) ==
            IF PatternMatch(text, i) # {} THEN <<SPECIAL_CODES[code_name(i)]>>
            ELSE IF \E m \in 1..(i - 1) :
                        PatternMatch(text, m) # {} /\ i <= MatchEnd(text, m)
            THEN <<>>
            ELSE <<IF text[i] \in DOMAIN CHAR_CODES THEN CHAR_CODES[text[i]] ELSE 0>>
    IN  IF \E i \in Matches(text) : code_name(i) \notin DOMAIN SPECIAL_CODES
        THEN Raises
        ELSE Returns(Concat([i \in 1..Len(text) |-> codes(i)]))

\* text_to_codes: Convert text to a list of character codes
text_to_codes(text) == ScanCodes(upper(text))

\* get_display_length: special codes count as 1 character; len(findall(text))
\* and the length of sub("", text)
get_display_length(text) ==
    Cardinality(Matches(text)) + (Len(text) - Cardinality(Matched(text)))

\* variant: the padding is rounded up, the odd blank cell is on the left
BoardRow_bias_left(codes, center) ==
    LET cut == SubSeq(codes, 1, IF Len(codes) < COLS THEN Len(codes) ELSE COLS)
        start == IF center THEN (COLS - Len(cut) + 1) \div 2 ELSE 0
    IN  [col \in 1..COLS |->
            IF col - start \in 1..Len(cut) THEN cut[col - start] ELSE 0]

\* one row of the board: codes[:COLS] placed from column start
BoardRow(codes, center) ==
    LET cut == SubSeq(codes, 1, IF Len(codes) < COLS THEN Len(codes) ELSE COLS)
        start == IF center THEN (COLS - Len(cut)) \div 2 ELSE 0
    IN  [col \in 1..COLS |->
            IF col - start \in 1..Len(cut) THEN cut[col - start] ELSE 0]

\* variant: the board shows the last ROWS lines, not the first
create_board_last_lines(lines, center) ==
    LET skip == IF Len(lines) < ROWS THEN 0 ELSE Len(lines) - ROWS
        used == 1..(Len(lines) - skip)
    IN
    IF \E r \in used : text_to_codes(lines[skip + r]).raised THEN Raises
    ELSE Returns([row \in 1..ROWS |->
                    IF row \in used
                    THEN BoardRow(text_to_codes(lines[skip + row]).value, center)
                    ELSE [col \in 1..COLS |-> 0]])

\* create_board: a 6x22 board from lines[:ROWS]; a line that fails to encode
\* raises out of create_board
create_board(lines, center) ==
    LET used == 1..(IF Len(lines) < ROWS THEN Len(lines) ELSE ROWS) IN
    IF \E r \in used : text_to_codes(lines[r]).raised THEN Raises
    ELSE Returns([row \in 1..ROWS |->
                    IF row \in used
                    THEN BoardRow(text_to_codes(lines[row]).value, center)
                    ELSE [col \in 1..COLS |-> 0]])

\* str.split(): the maximal runs of characters that are not whitespace
IsSpace(ch) == ch \in {" ", "\n", "\t"}

split(text) ==
    LET starts == {i \in 1..Len(text) :
                      ~IsSpace(text[i]) /\ (i = 1 \/ IsSpace(text[i - 1]))}
        start(k) == CHOOSE i \in starts : Cardinality({j \in starts : j < i}) = k - 1
        end(i) == CHOOSE j \in i..Len(text) :
                      /\ j = Len(text) \/ IsSpace(text[j + 1])
                      /\ \A m \in i..j : ~IsSpace(text[m])
    IN  [k \in 1..Cardinality(starts) |-> SubSeq(text, start(k), end(start(k)))]

\* " ".join(words)
RECURSIVE join(_)
join(words) ==
    IF words = <<>> THEN <<>>
    ELSE IF Len(words) = 1 THEN words[1]
    ELSE words[1] \o <<" ">> \o join(Tail(words))

\* wrap_text before its loop: no lines, an empty current line
WrapStart(text) ==
    [words |-> split(text), idx |-> 1, lines |-> <<>>,
     current_line |-> <<>>, current_length |-> 0]

\* variant: the blank between two words is not counted
WrapWord_blank_free(w, width) ==
    LET word == w.words[w.idx]
        word_length == get_display_length(word)
    IN  IF w.current_length + word_length <= width
        THEN [w EXCEPT !.idx = @ + 1,
                       !.current_line = Append(@, word),
                       !.current_length = @ + word_length]
        ELSE [w EXCEPT !.idx = @ + 1,
                       !.lines = IF w.current_line # <<>>
                                 THEN Append(@, join(w.current_line)) ELSE @,
                       !.current_line = <<word>>,
                       !.current_length = word_length]

\* one iteration of the loop of wrap_text, over words[idx]
WrapWord(w, width) ==
    LET word == w.words[w.idx]
        word_length == get_display_length(word)
    IN  IF w.current_length + word_length
               + (IF w.current_line # <<>> THEN 1 ELSE 0) <= width
        THEN [w EXCEPT !.idx = @ + 1,
                       !.current_line = Append(@, word),
                       !.current_length =
                           @ + word_length
                             + (IF Len(w.current_line) + 1 > 1 THEN 1 ELSE 0)]
        ELSE [w EXCEPT !.idx = @ + 1,
                       !.lines = IF w.current_line # <<>>
                                 THEN Append(@, join(w.current_line)) ELSE @,
                       !.current_line = <<word>>,
                       !.current_length = word_length]

\* variant: the line under way when the words run out is not returned
WrapEnd_unflushed(w) == w.lines

\* wrap_text after its loop: the current line, if any, is the last line
WrapEnd(w) ==
    IF w.current_line # <<>> THEN Append(w.lines, join(w.current_line)) ELSE w.lines

RECURSIVE WrapLoop(_, _)
WrapLoop(w, width) ==
    IF w.idx > Len(w.words) THEN WrapEnd(w) ELSE WrapLoop(WrapWord(w, width), width)

\* wrap_text: Wrap text to fit within the specified width
wrap_text(text, width) == WrapLoop(WrapStart(text), width)

\* variant: the padding is all the rows left over, the text ends in the last row
format_message_bottom(text, center) ==
    LET wrapped == wrap_text(text, COLS)
        lines == SubSeq(wrapped, 1, IF Len(wrapped) < ROWS THEN Len(wrapped) ELSE ROWS)
        padding == ROWS - Len(lines)
    IN  create_board(IF center /\ Len(lines) < ROWS
                     THEN [i \in 1..padding |-> <<>>] \o lines
                     ELSE lines,
                     center)

\* format_message: wrap at COLS, keep ROWS lines, center vertically, build the board
format_message(text, center) ==
    LET wrapped == wrap_text(text, COLS)
        lines == SubSeq(wrapped, 1, IF Len(wrapped) < ROWS THEN Len(wrapped) ELSE ROWS)
        padding == (ROWS - Len(lines)) \div 2
    IN  create_board(IF center /\ Len(lines) < ROWS
                     THEN [i \in 1..padding |-> <<>>] \o lines
                     ELSE lines,
                     center)

\* ------------------------------------------------------------- initial state
NoMsg == Row(0, "", None, "", FALSE, Never)
NoBoard == [via |-> "", arg |-> <<>>, center |-> FALSE]
IdleCall ==
    [pc |-> "idle", msg |-> NoMsg, p |-> "", content |-> "", success |-> FALSE,
     board |-> NoBoard, rec |-> 0]
\* a loop thread outside a pass; read, seen and ran are history of the pass
NoPass ==
    [pc |-> "unborn", messages |-> <<>>, idx |-> 0, now |-> 0,
     read |-> <<>>, seen |-> <<>>, ran |-> {}]

\* a tracker thread outside a pass
NoWatch ==
    [pc |-> "unborn", flights |-> <<>>, idx |-> 0, today |-> 0,
     status |-> None, lines |-> <<>>]
\* history of one flight key: the status observed last, the observations, those
\* that differ from the one before, the updates dispatched, and whether every
\* update was formatted and sent without an exception
NoWatched == [prev |-> None, obs |-> 0, changes |-> 0, sends |-> 0, clean |-> TRUE]

\* variant: the width of the first row alone is checked
ValidBoard_first_row(board) ==
    /\ Len(board) = ROWS
    /\ Len(board[1]) = COLS

\* client.py 62-66: send_board raises ValueError unless the board has ROWS rows
\* of COLS columns
ValidBoard(board) ==
    /\ Len(board) = ROWS
    /\ \A row \in DOMAIN board : Len(board[row]) = COLS

\* the Rendering Engine and the transport before any call
NoRender ==
    [op |-> "none", pc |-> "idle", text |-> <<>>, width |-> 0, center |-> FALSE,
     lines |-> <<>>, codes |-> Returns(<<>>), length |-> 0,
     wrap |-> WrapStart(<<>>), wrapped |-> <<>>, board |-> Returns(<<>>),
     grid |-> <<>>, sent |-> "", requests |-> 0]

InitEngine ==
    /\ now = 1
    /\ today = 1
    /\ message_log = <<>>
    /\ running = FALSE
    /\ thread = 0
    /\ flight_thread = 0
    /\ main = [t \in Threads |-> NoPass]
    /\ tracker = [u \in Threads |-> NoWatch]
    /\ calls = [c \in Callers |-> IdleCall]
    /\ last_flight_status = [k \in Keys |-> None]
    /\ retry = {}
    /\ watch = [k \in Keys |-> NoWatched]

\* after construction, over an empty store
Init ==
    /\ InitEngine
    /\ render = NoRender
    /\ scheduled_messages = <<>>
    /\ flights = <<>>
    /\ fired = <<>>

\* the tracked flights a store may hold: up to BootRows rows
FlightRows ==
    {[flight_number |-> n, flight_date |-> d, enabled |-> e] :
        n \in FlightNumbers, d \in Dates, e \in BOOLEAN}

FlightTables == UNION {[1..n -> FlightRows] : n \in 1..BootRows}

\* the watcher over a store of tracked flights, no triggers
InitFlight ==
    /\ InitEngine
    /\ render = NoRender
    /\ scheduled_messages = <<>>
    /\ flights \in FlightTables
    /\ fired = <<>>

\* both loops over BootRows enabled triggers (the last a text, the others weather)
\* and BootRows flights tracked for today
InitLoops ==
    /\ InitEngine
    /\ render = NoRender
    /\ scheduled_messages \in
           {[id \in 1..BootRows |->
                IF id = BootRows
                THEN Row(id, "text", "HI", "* * * * *", TRUE, Never)
                ELSE Row(id, "weather", None, crons[id], TRUE, Never)] :
              crons \in [1..BootRows -> StillCrons]}
    /\ flights = [i \in 1..BootRows |->
                     [flight_number |-> IF i % 2 = 1 THEN "AA100" ELSE "UA5",
                      flight_date |-> 1, enabled |-> TRUE]]
    /\ fired = [id \in 1..BootRows |-> Never]

\* one trigger and one flight, for the threads that start() and stop() make
InitLife ==
    /\ InitEngine
    /\ render = NoRender
    /\ scheduled_messages = <<Row(1, "text", "HI", "* * * * *", TRUE, Never)>>
    /\ flights = <<[flight_number |-> "AA100", flight_date |-> 1, enabled |-> TRUE]>>
    /\ fired = <<Never>>

\* ------------------------------------------------------------- the clock
Tick ==
    /\ now < MaxTime
    /\ now' = now + 1
    /\ UNCHANGED <<render, today, store, engine, last_flight_status, main, tracker, calls, history>>

\* ------------------------------------------------------------- schedule requests
\* POST /api/schedules
api_create_schedule ==
    \E message_type \in InputTypes, cron_expression \in InputCrons, enabled \in BOOLEAN :
        LET id == Len(scheduled_messages) + 1 IN
        /\ id <= MaxId
        /\ scheduled_messages' =
               Append(scheduled_messages,
                      Row(id, message_type, InputContent(message_type),
                          cron_expression, enabled, Never))
        /\ fired' = Append(fired, Never)
        /\ UNCHANGED <<render, now, today, flights, message_log, engine, last_flight_status,
                       main, tracker, calls, retry, watch>>

\* PUT /api/schedules/<id> with the key cron_expression or enabled in the body
api_update_schedule ==
    \E id \in DOMAIN scheduled_messages :
        LET msg == scheduled_messages[id] IN
        \E edited \in
              {[msg EXCEPT !.cron_expression = v] : v \in InputCrons}
              \cup {[msg EXCEPT !.enabled = v] : v \in BOOLEAN} :
            /\ edited # msg
            /\ scheduled_messages' = save_scheduled_message(scheduled_messages, edited)
            /\ retry' = retry \ {id}
            /\ UNCHANGED <<render, now, today, flights, message_log, engine, last_flight_status,
                           main, tracker, calls, fired, watch>>

\* ------------------------------------------------------------- the board of a call
\* the strings of the triggers and providers of the model, character by character
Spelled ==
    ("" :> <<>>) @@ ("HI" :> <<"H", "I">>) @@
    ("SEATTLE" :> <<"S", "E", "A", "T", "T", "L", "E">>) @@
    ("55 RAIN" :> <<"5", "5", " ", "R", "A", "I", "N">>) @@
    ("MARKETS" :> <<"M", "A", "R", "K", "E", "T", "S">>) @@
    ("AAPL 190" :> <<"A", "A", "P", "L", " ", "1", "9", "0">>) @@
    ("MONDAY" :> <<"M", "O", "N", "D", "A", "Y">>) @@
    ("MAY 01" :> <<"M", "A", "Y", " ", "0", "1">>) @@
    ("NO EVENTS TODAY" :> <<"N", "O", " ", "E", "V", "E", "N", "T", "S", " ", "T", "O",
        "D", "A", "Y">>) @@
    ("NEWS" :> <<"N", "E", "W", "S">>) @@
    ("HEADLINE" :> <<"H", "E", "A", "D", "L", "I", "N", "E">>) @@
    ("COUNTDOWNS" :> <<"C", "O", "U", "N", "T", "D", "O", "W", "N", "S">>) @@
    ("TRIP 1 DAY" :> <<"T", "R", "I", "P", " ", "1", " ", "D", "A", "Y">>) @@
    ("FLIGHT TRACKER" :> <<"F", "L", "I", "G", "H", "T", " ", "T", "R", "A", "C", "K",
        "E", "R">>) @@
    ("NO FLIGHTS" :> <<"N", "O", " ", "F", "L", "I", "G", "H", "T", "S">>)

\* "\n".join(lines), character by character
RECURSIVE JoinSpelled(_)
JoinSpelled(lines) ==
    IF lines = <<>> THEN <<>>
    ELSE IF Len(lines) = 1 THEN Spelled[lines[1]]
    ELSE Spelled[lines[1]] \o <<"\n">> \o JoinSpelled(Tail(lines))

\* the characters of a string of the model: a line, or the joined lines of a provider
Chars(s) ==
    IF s \in DOMAIN Spelled THEN Spelled[s]
    ELSE JoinSpelled(FormatForBoard(CHOOSE t \in MessageTypes \ {"text"} :
                                       s = JoinLines(FormatForBoard(t))))

\* client.py 49 and 94: the board send_message and send_lines hand to send_board
Grid(board) ==
    IF board.via = "format_message"
    THEN format_message(Chars(board.arg[1]), board.center)
    ELSE create_board([i \in DOMAIN board.arg |-> Chars(board.arg[i])], board.center)

\* ------------------------------------------------------------- execute_message
\* variant: the lines of a provider are joined and sent as a message, wrapped again
Dispatched_lines_as_message(msg, p) ==
    CASE msg.message_type = "text" ->
            LET content == IF msg.content = None THEN "" ELSE msg.content IN
            [send |-> TRUE, content |-> content,
             board |-> [via |-> "format_message", arg |-> <<content>>, center |-> TRUE]]
      [] msg.message_type \in MessageTypes \ {"text"} /\ p = "data" ->
            LET lines == FormatForBoard(msg.message_type) IN
            [send |-> TRUE, content |-> JoinLines(lines),
             board |-> [via |-> "format_message", arg |-> <<JoinLines(lines)>>,
                        center |-> TRUE]]
      [] msg.message_type \in MessageTypes \ {"text"} /\ p = "raise" ->
            [send |-> FALSE, content |-> "str(e)", board |-> NoBoard]
      [] OTHER ->
            [send |-> FALSE, content |-> "", board |-> NoBoard]

\* variant: a tag that is not known is sent as literal text
Dispatched_unknown_as_text(msg, p) ==
    CASE msg.message_type \in MessageTypes \ {"text"} /\ p = "data" ->
            LET lines == FormatForBoard(msg.message_type) IN
            [send |-> TRUE, content |-> JoinLines(lines),
             board |-> [via |-> "create_board", arg |-> lines, center |-> TRUE]]
      [] msg.message_type \in MessageTypes \ {"text"} /\ p = "raise" ->
            [send |-> FALSE, content |-> "str(e)", board |-> NoBoard]
      [] msg.message_type \in MessageTypes \ {"text"} ->
            [send |-> FALSE, content |-> "", board |-> NoBoard]
      [] OTHER ->
            LET content == IF msg.content = None THEN "" ELSE msg.content IN
            [send |-> TRUE, content |-> content,
             board |-> [via |-> "format_message", arg |-> <<content>>, center |-> TRUE]]

\* scheduler.py 49-99: what the dispatch on msg.message_type decides before any
\* request goes out, for the provider outcome p
Dispatched(msg, p) ==
    CASE msg.message_type = "text" ->
            LET content == IF msg.content = None THEN "" ELSE msg.content IN
            [send |-> TRUE, content |-> content,
             board |-> [via |-> "format_message", arg |-> <<content>>, center |-> TRUE]]
      [] msg.message_type \in MessageTypes \ {"text"} /\ p = "data" ->
            LET lines == FormatForBoard(msg.message_type) IN
            [send |-> TRUE, content |-> JoinLines(lines),
             board |-> [via |-> "create_board", arg |-> lines, center |-> TRUE]]
      [] msg.message_type \in MessageTypes \ {"text"} /\ p = "raise" ->
            [send |-> FALSE, content |-> "str(e)", board |-> NoBoard]
      [] OTHER ->
            [send |-> FALSE, content |-> "", board |-> NoBoard]

\* `return success`: web.py 977-978 answers with the value, scheduler.py 120 drops it
Returned(c, success) ==
    IF c = Web
    THEN /\ calls' = [calls EXCEPT ![c] = [IdleCall EXCEPT !.success = success]]
         /\ UNCHANGED main
    ELSE /\ calls' = [calls EXCEPT ![c] = IdleCall]
         /\ main' = [main EXCEPT ![c].pc = "pass", ![c].idx = @ + 1]

\* scheduler.py 52-99 up to the request: provider, rendering
Dispatch(c) ==
    /\ calls[c].pc = "dispatch"
    /\ \E p \in ProviderOutcomes(calls[c].msg.message_type) :
          LET d == Dispatched(calls[c].msg, p) IN
          calls' = [calls EXCEPT ![c].p = p, ![c].content = d.content,
                                 ![c].board = d.board,
                                 ![c].pc = IF d.send THEN "sending" ELSE "log"]
    /\ UNCHANGED <<render, now, today, store, engine, last_flight_status, main, tracker, history>>

\* client.py 68-82: the POST to the device answers, or fails
send_board(c) ==
    /\ calls[c].pc = "sending"
    /\ \E ok \in BOOLEAN :
          calls' = [calls EXCEPT ![c].success = ok, ![c].pc = "log"]
    /\ UNCHANGED <<render, now, today, store, engine, last_flight_status, main, tracker, history>>

\* variant: update_last_run without the `if success`
LogResult_marks_failed(c) ==
    /\ calls[c].pc = "log"
    /\ message_log' = log_message(message_log, calls[c].msg.message_type,
                                  calls[c].content, calls[c].success)
    /\ calls' = [calls EXCEPT ![c].pc = "update", ![c].rec = Len(message_log) + 1]
    /\ UNCHANGED <<render, now, today, scheduled_messages, flights, engine, last_flight_status,
                   main, tracker, history>>

\* scheduler.py 102-103 (and 106 when success is false)
LogResult(c) ==
    /\ calls[c].pc = "log"
    /\ message_log' = log_message(message_log, calls[c].msg.message_type,
                                  calls[c].content, calls[c].success)
    /\ IF calls[c].success
       THEN /\ calls' = [calls EXCEPT ![c].pc = "update", ![c].rec = Len(message_log) + 1]
            /\ UNCHANGED <<main, retry>>
       ELSE /\ Returned(c, FALSE)
            /\ retry' = IF /\ c # Web
                           /\ calls[c].board # NoBoard
                           /\ scheduled_messages[calls[c].msg.id] = calls[c].msg
                        THEN retry \cup {calls[c].msg.id} ELSE retry
    /\ UNCHANGED <<render, now, today, scheduled_messages, flights, engine, last_flight_status,
                   tracker, fired, watch>>

\* variant: only a dispatch of the loop counts as a fire
MarkRun_loop_only(c) ==
    /\ calls[c].pc = "update"
    /\ scheduled_messages' =
           IF c = Web THEN scheduled_messages
           ELSE update_last_run(scheduled_messages, calls[c].msg.id, now)
    /\ Returned(c, TRUE)
    /\ fired' = [fired EXCEPT ![calls[c].msg.id] = <<now>>]
    /\ retry' = retry \ {calls[c].msg.id}
    /\ UNCHANGED <<render, now, today, flights, message_log, engine, last_flight_status,
                   tracker, watch>>

\* variant: a dispatch of the loop stores the time its pass began
MarkRun_pass_time(c) ==
    /\ calls[c].pc = "update"
    /\ scheduled_messages' =
           update_last_run(scheduled_messages, calls[c].msg.id,
                           IF c = Web THEN now ELSE main[c].now)
    /\ Returned(c, TRUE)
    /\ fired' = [fired EXCEPT ![calls[c].msg.id] = <<now>>]
    /\ retry' = retry \ {calls[c].msg.id}
    /\ UNCHANGED <<render, now, today, flights, message_log, engine, last_flight_status,
                   tracker, watch>>

\* scheduler.py 104-106
MarkRun(c) ==
    /\ calls[c].pc = "update"
    /\ scheduled_messages' = update_last_run(scheduled_messages, calls[c].msg.id, now)
    /\ Returned(c, TRUE)
    /\ fired' = [fired EXCEPT ![calls[c].msg.id] = <<now>>]
    /\ retry' = retry \ {calls[c].msg.id}
    /\ UNCHANGED <<render, now, today, flights, message_log, engine, last_flight_status,
                   tracker, watch>>

execute_message(c) == Dispatch(c) \/ send_board(c) \/ LogResult(c) \/ MarkRun(c)

\* the records the log holds plus those the passes and requests under way may add
RECURSIVE SumOver(_, _)
SumOver(S, f) ==
    IF S = {} THEN 0
    ELSE LET x == CHOOSE y \in S : TRUE IN f[x] + SumOver(S \ {x}, f)

Reserved ==
    Len(message_log)
    + SumOver(Threads, [t \in Threads |->
                 IF main[t].pc \in {"pass", "call"}
                 THEN Len(main[t].messages) - main[t].idx + 1 ELSE 0])
    + Cardinality({u \in Threads : tracker[u].pc = "sending"})
    + (IF calls[Web].pc = "idle" THEN 0 ELSE 1)

\* POST /api/schedules/<id>/run
api_run_schedule ==
    /\ calls[Web].pc = "idle"
    /\ Reserved < MaxLog
    /\ \E id \in DOMAIN scheduled_messages :
          calls' = [calls EXCEPT ![Web] = [IdleCall EXCEPT !.pc = "dispatch",
                                                          !.msg = scheduled_messages[id]]]
    /\ UNCHANGED <<render, now, today, store, engine, last_flight_status, main, tracker, history>>

\* ------------------------------------------------------------- the primary loop
\* variant: due only once the occurrence lies in the past
IsDue_strict(msg, pass_now) ==
    /\ CronValid(msg.cron_expression)
    /\ GetNext(msg.cron_expression,
               IF msg.last_run = Never THEN SENTINEL ELSE msg.last_run[1]) < pass_now

\* scheduler.py 115-118: is msg due at the pass's now; croniter raising counts as not
IsDue(msg, pass_now) ==
    /\ CronValid(msg.cron_expression)
    /\ GetNext(msg.cron_expression,
               IF msg.last_run = Never THEN SENTINEL ELSE msg.last_run[1]) <= pass_now

\* variant: `while True`, the flag is never tested
run_loop_forever(t) ==
    /\ main[t].pc = "loop"
    /\ LET messages == get_scheduled_messages(scheduled_messages, TRUE) IN
       /\ Reserved + Len(messages) <= MaxLog
       /\ main' = [main EXCEPT ![t] =
              [pc |-> "pass", messages |-> messages, idx |-> 1, now |-> now,
               read |-> scheduled_messages, seen |-> fired, ran |-> {}]]
    /\ UNCHANGED <<render, now, today, store, engine, last_flight_status, tracker, calls, history>>

\* scheduler.py 188 and 110-111: the loop test, then the pass reads store and clock
run_loop(t) ==
    /\ main[t].pc = "loop"
    /\ IF running
       THEN LET messages == get_scheduled_messages(scheduled_messages, TRUE) IN
            /\ Reserved + Len(messages) <= MaxLog
            /\ main' = [main EXCEPT ![t] =
                   [pc |-> "pass", messages |-> messages, idx |-> 1, now |-> now,
                    read |-> scheduled_messages, seen |-> fired, ran |-> {}]]
       ELSE main' = [main EXCEPT ![t] = [NoPass EXCEPT !.pc = "exited"]]
    /\ UNCHANGED <<render, now, today, store, engine, last_flight_status, tracker, calls, history>>

\* variant: a trigger whose expression croniter rejects is switched off
check_and_run_scheduled_disables(t) ==
    /\ main[t].pc = "pass"
    /\ main[t].idx <= Len(main[t].messages)
    /\ LET msg == main[t].messages[main[t].idx] IN
       IF ~CronValid(msg.cron_expression)
       THEN /\ main' = [main EXCEPT ![t].idx = @ + 1]
            /\ scheduled_messages' = [scheduled_messages EXCEPT ![msg.id].enabled = FALSE]
            /\ UNCHANGED calls
       ELSE IF IsDue(msg, main[t].now)
       THEN /\ calls' = [calls EXCEPT ![t] = [IdleCall EXCEPT !.pc = "dispatch", !.msg = msg]]
            /\ main' = [main EXCEPT ![t].pc = "call", ![t].ran = @ \cup {msg.id}]
            /\ UNCHANGED scheduled_messages
       ELSE /\ main' = [main EXCEPT ![t].idx = @ + 1]
            /\ UNCHANGED <<calls, scheduled_messages>>
    /\ UNCHANGED <<render, now, today, flights, message_log, engine, last_flight_status,
                   tracker, history>>

\* variant: no try around the trigger, so croniter raising ends the pass
check_and_run_scheduled_unguarded(t) ==
    /\ main[t].pc = "pass"
    /\ main[t].idx <= Len(main[t].messages)
    /\ LET msg == main[t].messages[main[t].idx] IN
       IF ~CronValid(msg.cron_expression)
       THEN /\ main' = [main EXCEPT ![t] = [NoPass EXCEPT !.pc = "sleep"]]
            /\ UNCHANGED calls
       ELSE IF IsDue(msg, main[t].now)
       THEN /\ calls' = [calls EXCEPT ![t] = [IdleCall EXCEPT !.pc = "dispatch", !.msg = msg]]
            /\ main' = [main EXCEPT ![t].pc = "call", ![t].ran = @ \cup {msg.id}]
       ELSE /\ main' = [main EXCEPT ![t].idx = @ + 1]
            /\ UNCHANGED calls
    /\ UNCHANGED <<render, now, today, store, engine, last_flight_status, tracker, history>>

\* variant: the pass looks at the flag before each trigger and gives up when it
\* is down
check_and_run_scheduled_checks_flag(t) ==
    /\ main[t].pc = "pass"
    /\ main[t].idx <= Len(main[t].messages)
    /\ LET msg == main[t].messages[main[t].idx] IN
       IF ~running
       THEN /\ main' = [main EXCEPT ![t] = [NoPass EXCEPT !.pc = "sleep"]]
            /\ UNCHANGED calls
       ELSE IF IsDue(msg, main[t].now)
       THEN /\ calls' = [calls EXCEPT ![t] = [IdleCall EXCEPT !.pc = "dispatch", !.msg = msg]]
            /\ main' = [main EXCEPT ![t].pc = "call", ![t].ran = @ \cup {msg.id}]
       ELSE /\ main' = [main EXCEPT ![t].idx = @ + 1]
            /\ UNCHANGED calls
    /\ UNCHANGED <<render, now, today, store, engine, last_flight_status, tracker, history>>

\* scheduler.py 113-123: one trigger of the pass
check_and_run_scheduled(t) ==
    /\ main[t].pc = "pass"
    /\ main[t].idx <= Len(main[t].messages)
    /\ LET msg == main[t].messages[main[t].idx] IN
       IF IsDue(msg, main[t].now)
       THEN /\ calls' = [calls EXCEPT ![t] = [IdleCall EXCEPT !.pc = "dispatch", !.msg = msg]]
            /\ main' = [main EXCEPT ![t].pc = "call", ![t].ran = @ \cup {msg.id}]
       ELSE /\ main' = [main EXCEPT ![t].idx = @ + 1]
            /\ UNCHANGED calls
    /\ UNCHANGED <<render, now, today, store, engine, last_flight_status, tracker, history>>

\* scheduler.py 193: the pass is over, time.sleep(check_interval)
EndPass(t) ==
    /\ main[t].pc = "pass"
    /\ main[t].idx > Len(main[t].messages)
    /\ main' = [main EXCEPT ![t] = [NoPass EXCEPT !.pc = "sleep"]]
    /\ UNCHANGED <<render, now, today, store, engine, last_flight_status, tracker, calls, history>>

\* scheduler.py 193: time.sleep returns
Wake(t) ==
    /\ main[t].pc = "sleep"
    /\ main' = [main EXCEPT ![t].pc = "loop"]
    /\ UNCHANGED <<render, now, today, store, engine, last_flight_status, tracker, calls, history>>

PrimaryLoop(t) ==
    run_loop(t) \/ check_and_run_scheduled(t) \/ EndPass(t) \/ Wake(t) \/ execute_message(t)

\* ------------------------------------------------------------- the flight watcher
Midnight ==
    /\ today < MaxDay
    /\ today' = today + 1
    /\ UNCHANGED <<render, now, store, engine, last_flight_status, main, tracker, calls, history>>

Observations == SumOver(Keys, [k \in Keys |-> watch[k].obs])

\* scheduler.py 165 and 127-128: the loop test, then the pass reads date and store
flight_tracker_loop(u) ==
    /\ tracker[u].pc = "loop"
    /\ IF running
       THEN tracker' = [tracker EXCEPT ![u] =
                [NoWatch EXCEPT !.pc = "pass", !.flights = get_flights(flights, today),
                                !.idx = 1, !.today = today]]
       ELSE tracker' = [tracker EXCEPT ![u] = [NoWatch EXCEPT !.pc = "exited"]]
    /\ UNCHANGED <<render, now, today, store, engine, last_flight_status, main, calls, history>>

\* scheduler.py 130-149: one tracked flight of the pass, up to the request
check_active_flights(u) ==
    /\ tracker[u].pc = "pass"
    /\ tracker[u].idx <= Len(tracker[u].flights)
    /\ LET flight == tracker[u].flights[tracker[u].idx]
           key == flight_key(flight)
           skip == [tracker EXCEPT ![u].idx = @ + 1]
       IN
       IF flight.flight_date # tracker[u].today
       THEN tracker' = skip /\ UNCHANGED watch
       ELSE \E status \in FetchResults :
              IF ~status.found
              THEN tracker' = skip /\ UNCHANGED watch
              ELSE LET changed == last_flight_status[key] # status.status
                       send == changed /\ ~FormatRaises(status)
                   IN
                   /\ Observations < MaxObs
                   /\ send => Reserved < MaxLog
                   /\ watch' = [watch EXCEPT ![key] =
                          [prev |-> status.status,
                           obs |-> @.obs + 1,
                           changes |-> @.changes + (IF @.prev # status.status THEN 1 ELSE 0),
                           sends |-> @.sends + (IF send THEN 1 ELSE 0),
                           clean |-> @.clean /\ ~(changed /\ FormatRaises(status))]]
                   /\ tracker' =
                          IF send
                          THEN [tracker EXCEPT ![u].pc = "sending",
                                               ![u].status = status.status,
                                               ![u].lines = FlightLines(status, flight)]
                          ELSE skip
    /\ UNCHANGED <<render, now, today, store, engine, last_flight_status, main, calls, fired, retry>>

\* client.send_lines(lines) returns True or False, or raises (create_board on a
\* line that text_to_codes cannot encode; send_board on anything but a
\* RequestException)
SendOutcomes == {"True", "False", "raise"}

\* variant: a flight that is complete is switched off
flight_sent_untracks(u) ==
    /\ tracker[u].pc = "sending"
    /\ \E outcome \in SendOutcomes :
          IF outcome = "raise"
          THEN /\ watch' = [watch EXCEPT
                      ![flight_key(tracker[u].flights[tracker[u].idx])].clean = FALSE]
               /\ UNCHANGED <<message_log, last_flight_status>>
          ELSE /\ message_log' =
                      log_message(message_log, "flight_auto",
                                  JoinLines(tracker[u].lines), outcome = "True")
               /\ last_flight_status' =
                      [last_flight_status EXCEPT
                          ![flight_key(tracker[u].flights[tracker[u].idx])] =
                              tracker[u].status]
               /\ UNCHANGED watch
    /\ flights' =
           [i \in DOMAIN flights |->
               IF /\ flights[i] = tracker[u].flights[tracker[u].idx]
                  /\ tracker[u].status \in COMPLETED_STATUSES
               THEN [flights[i] EXCEPT !.enabled = FALSE]
               ELSE flights[i]]
    /\ tracker' = [tracker EXCEPT ![u].pc = "pass", ![u].idx = @ + 1,
                                  ![u].status = None, ![u].lines = <<>>]
    /\ UNCHANGED <<render, now, today, scheduled_messages, engine, main, calls,
                   fired, retry>>

\* variant: the status is remembered only when the update reached the board
flight_sent_remembers_success(u) ==
    /\ tracker[u].pc = "sending"
    /\ \E outcome \in SendOutcomes :
          IF outcome = "raise"
          THEN /\ watch' = [watch EXCEPT
                      ![flight_key(tracker[u].flights[tracker[u].idx])].clean = FALSE]
               /\ UNCHANGED <<message_log, last_flight_status>>
          ELSE /\ message_log' =
                      log_message(message_log, "flight_auto",
                                  JoinLines(tracker[u].lines), outcome = "True")
               /\ last_flight_status' =
                      IF outcome = "True"
                      THEN [last_flight_status EXCEPT
                               ![flight_key(tracker[u].flights[tracker[u].idx])] =
                                   tracker[u].status]
                      ELSE last_flight_status
               /\ UNCHANGED watch
    /\ tracker' = [tracker EXCEPT ![u].pc = "pass", ![u].idx = @ + 1,
                                  ![u].status = None, ![u].lines = <<>>]
    /\ UNCHANGED <<render, now, today, scheduled_messages, flights, engine, main, calls,
                   fired, retry>>

\* scheduler.py 150-154 and 160-161: the request answers, fails or raises; the log;
\* the remembered status
flight_sent(u) ==
    /\ tracker[u].pc = "sending"
    /\ \E outcome \in SendOutcomes :
          IF outcome = "raise"
          THEN /\ watch' = [watch EXCEPT
                      ![flight_key(tracker[u].flights[tracker[u].idx])].clean = FALSE]
               /\ UNCHANGED <<message_log, last_flight_status>>
          ELSE /\ message_log' =
                      log_message(message_log, "flight_auto",
                                  JoinLines(tracker[u].lines), outcome = "True")
               /\ last_flight_status' =
                      [last_flight_status EXCEPT
                          ![flight_key(tracker[u].flights[tracker[u].idx])] =
                              tracker[u].status]
               /\ UNCHANGED watch
    /\ tracker' = [tracker EXCEPT ![u].pc = "pass", ![u].idx = @ + 1,
                                  ![u].status = None, ![u].lines = <<>>]
    /\ UNCHANGED <<render, now, today, scheduled_messages, flights, engine, main, calls,
                   fired, retry>>

\* scheduler.py 171-174: the pass is over, the thread sleeps
EndFlightPass(u) ==
    /\ tracker[u].pc = "pass"
    /\ tracker[u].idx > Len(tracker[u].flights)
    /\ tracker' = [tracker EXCEPT ![u] = [NoWatch EXCEPT !.pc = "sleep"]]
    /\ UNCHANGED <<render, now, today, store, engine, last_flight_status, main, calls, history>>

\* scheduler.py 171-174: the sleep ends, or the flag is seen down
FlightWake(u) ==
    /\ tracker[u].pc = "sleep"
    /\ tracker' = [tracker EXCEPT ![u].pc = "loop"]
    /\ UNCHANGED <<render, now, today, store, engine, last_flight_status, main, calls, history>>

FlightLoop(u) ==
    flight_tracker_loop(u) \/ check_active_flights(u) \/ flight_sent(u)
    \/ EndFlightPass(u) \/ FlightWake(u)

\* ------------------------------------------------------------- start and stop
\* scheduler.py 176-202
start ==
    /\ ~running
    /\ \E t \in Threads :
          /\ main[t].pc = "unborn"
          /\ \A u \in Threads : u < t => main[u].pc # "unborn"
          /\ main' = [main EXCEPT ![t].pc = "loop"]
          /\ tracker' = [tracker EXCEPT ![t].pc = "loop"]
          /\ thread' = t
          /\ flight_thread' = t
    /\ running' = TRUE
    /\ UNCHANGED <<render, now, today, store, last_flight_status, calls, history>>

\* scheduler.py 204-211: the flag goes down, then join(timeout=5) on each handle.
\* Within the join a thread that is at its loop test returns, and so does the
\* tracker thread when it sleeps (it polls the flag every second); the join gives
\* up on a thread that is in a pass or in time.sleep(check_interval)
stop ==
    /\ running' = FALSE
    /\ main' = IF thread # 0 /\ main[thread].pc = "loop"
               THEN [main EXCEPT ![thread] = [NoPass EXCEPT !.pc = "exited"]]
               ELSE main
    /\ tracker' = IF flight_thread # 0 /\ tracker[flight_thread].pc \in {"loop", "sleep"}
                  THEN [tracker EXCEPT ![flight_thread] = [NoWatch EXCEPT !.pc = "exited"]]
                  ELSE tracker
    /\ UNCHANGED <<render, now, today, store, thread, flight_thread, last_flight_status,
                   calls, history>>

\* ------------------------------------------------------------- specifications
Next ==
    \/ Tick
    \/ api_create_schedule
    \/ api_update_schedule
    \/ api_run_schedule
    \/ execute_message(Web)
    \/ start
    \/ \E t \in Threads : PrimaryLoop(t)

Spec == Init /\ [][Next]_vars

NextFlight ==
    \/ Midnight
    \/ start
    \/ \E u \in Threads : FlightLoop(u)

SpecFlight == InitFlight /\ [][NextFlight]_vars

NextLoops ==
    \/ start
    \/ \E t \in Threads : PrimaryLoop(t) \/ FlightLoop(t)

SpecLoops == InitLoops /\ [][NextLoops]_vars

NextLife ==
    \/ start
    \/ stop
    \/ \E t \in Threads : PrimaryLoop(t) \/ FlightLoop(t)

SpecLife == InitLife /\ [][NextLife]_vars

\* start() once, and stop() at any time after it
NextStop ==
    \/ thread = 0 /\ start
    \/ thread # 0 /\ stop
    \/ \E t \in Threads : PrimaryLoop(t) \/ FlightLoop(t)

SpecStop == InitLife /\ [][NextStop]_vars

\* the same over the store of SpecLoops
SpecLoopsStop == InitLoops /\ [][NextStop]_vars

\* a started thread keeps running: the interpreter schedules it, its sleeps end,
\* and every request it makes carries a timeout
SpecStopFair ==
    /\ SpecStop
    /\ \A t \in Threads : WF_vars(PrimaryLoop(t)) /\ WF_vars(FlightLoop(t))

\* ------------------------------------------------------------- rendering inputs
\* the sequences of at most n elements of S
SeqsUpTo(S, n) == UNION {[1..k -> S] : k \in 0..n}

\* what texts are made of: braces, a blank, a color name in mixed case alone
\* and in braces, a sharp s, a character outside the table, and BLACK in braces
\* spelled with the Kelvin sign
Pieces ==
    {<<"{">>, <<"}">>, <<" ">>, <<"r", "E", "d">>, <<"{", "r", "E", "d", "}">>,
     <<"eszett">>, <<"~">>, <<"{", "B", "L", "A", "C", "kelvin", "}">>}

\* the texts that are encoded and measured: the pieces put together, and a color
\* token before two letters
Texts ==
    {Concat(p) : p \in SeqsUpTo(Pieces, MaxPieces)}
    \cup {<<"{", "R", "E", "D", "}", "H", "I">>}

\* the words of the texts that are wrapped: of 1, 3 and 1 display cells, the
\* last a color token of five characters, and a word with a sharp s
WrapWords ==
    {<<"E">>, <<"E", "E", "E">>, <<"{", "r", "E", "d", "}">>, <<"eszett", "E">>}

\* the words, each after gap blanks
RECURSIVE Spaced(_, _)
Spaced(words, gap) ==
    IF words = <<>> THEN <<>>
    ELSE [i \in 1..gap |-> " "] \o Head(words) \o Spaced(Tail(words), gap)

\* the texts that are wrapped; one of them is blanks alone
WrapTexts ==
    {Spaced(ws, gap) : ws \in SeqsUpTo(WrapWords, MaxWords), gap \in 1..2}
    \cup {<<" ", " ">>}
Widths == 0..MaxWidth

\* the lines given to create_board: empty, a color token and a letter, and one
\* cell more than a row; or one line of BLACK spelled with the Kelvin sign among
\* empty lines; or a single line of any length up to one cell more than a row
Lines == {<<>>, <<"{", "r", "E", "d", "}", "E">>, [i \in 1..(COLS + 1) |-> "E"]}

LineLists ==
    SeqsUpTo(Lines, MaxLines)
    \cup {[i \in 1..MaxLines |->
              IF i = r THEN <<"{", "B", "L", "A", "C", "kelvin", "}">> ELSE <<>>] :
            r \in 1..MaxLines}
    \cup {<<[i \in 1..n |-> IF i = 1 THEN "A" ELSE "E"]>> : n \in 0..(COLS + 1)}

\* the words of the messages: two of the first do not fit one row
MessageWords ==
    {[i \in 1..12 |-> "E"], <<"{", "r", "E", "d", "}">>,
     <<"{", "B", "L", "A", "C", "kelvin", "}">>}

MessageTexts == {Spaced(ws, 1) : ws \in SeqsUpTo(MessageWords, MaxLines)}

\* the boards handed to send_board directly: rows rows of cols columns, but for
\* row odd (if there is such a row), which has other columns
Grids ==
    {[i \in 1..rows |-> [j \in 1..(IF i = odd THEN other ELSE cols) |-> 0]] :
        rows \in {0, ROWS - 1, ROWS, ROWS + 1},
        cols \in {0, COLS - 1, COLS, COLS + 1},
        other \in {COLS - 1, COLS, COLS + 1},
        odd \in {1, ROWS}}

InitRender ==
    /\ InitEngine
    /\ scheduled_messages = <<>>
    /\ flights = <<>>
    /\ fired = <<>>
    /\ render \in
         {[NoRender EXCEPT !.op = "encode", !.pc = "input", !.text = t] :
             t \in Texts}
         \cup {[NoRender EXCEPT !.op = "wrap", !.pc = "input", !.text = t, !.width = w] :
             t \in WrapTexts, w \in Widths}
         \cup {[NoRender EXCEPT !.op = "board", !.pc = "input", !.lines = l, !.center = c] :
             l \in LineLists, c \in BOOLEAN}
         \cup {[NoRender EXCEPT !.op = "message", !.pc = "input", !.text = t, !.center = c] :
             t \in MessageTexts, c \in BOOLEAN}
         \cup {[NoRender EXCEPT !.op = "send", !.pc = "input", !.grid = g] : g \in Grids}

\* ------------------------------------------------------------- rendering calls
\* codes = text_to_codes(text)
Encode ==
    /\ render.op = "encode" /\ render.pc = "input"
    /\ render' = [render EXCEPT !.pc = "encoded", !.codes = text_to_codes(render.text)]
    /\ UNCHANGED scheduler

\* get_display_length(text), of the text that was encoded
Measure ==
    /\ render.op = "encode" /\ render.pc = "encoded"
    /\ render' = [render EXCEPT !.pc = "done", !.length = get_display_length(render.text)]
    /\ UNCHANGED scheduler

\* wrap_text(text, width) up to its loop
WrapCall ==
    /\ render.op = "wrap" /\ render.pc = "input"
    /\ render' = [render EXCEPT !.pc = "loop", !.wrap = WrapStart(render.text)]
    /\ UNCHANGED scheduler

\* one iteration of the loop
WrapNext ==
    /\ render.pc = "loop"
    /\ render.wrap.idx <= Len(render.wrap.words)
    /\ render' = [render EXCEPT !.wrap = WrapWord(render.wrap, render.width)]
    /\ UNCHANGED scheduler

\* the loop is over: wrap_text returns
WrapReturn ==
    /\ render.pc = "loop"
    /\ render.wrap.idx > Len(render.wrap.words)
    /\ render' = [render EXCEPT !.pc = "done", !.wrapped = WrapEnd(render.wrap)]
    /\ UNCHANGED scheduler

\* create_board(lines, center)
Board ==
    /\ render.op = "board" /\ render.pc = "input"
    /\ render' = [render EXCEPT !.pc = "done",
                                !.board = create_board(render.lines, render.center)]
    /\ UNCHANGED scheduler

\* format_message(text, center)
Message ==
    /\ render.op = "message" /\ render.pc = "input"
    /\ render' = [render EXCEPT !.pc = "done",
                                !.board = format_message(render.text, render.center)]
    /\ UNCHANGED scheduler

\* client.py 52-82, send_board(board): ValueError and no request, or the POST,
\* which the device answers or not
SendBoard(board) ==
    IF ~ValidBoard(board)
    THEN render' = [render EXCEPT !.pc = "sent", !.grid = board, !.sent = "ValueError"]
    ELSE \E ok \in BOOLEAN :
            render' = [render EXCEPT !.pc = "sent", !.grid = board,
                                     !.sent = IF ok THEN "True" ELSE "False",
                                     !.requests = @ + 1]

\* client.send_board(board), with a board of the caller
SendGrid ==
    /\ render.op = "send" /\ render.pc = "input"
    /\ SendBoard(render.grid)
    /\ UNCHANGED scheduler

\* client.py 50 and 95: send_message and send_lines hand the board that
\* format_message or create_board returned to send_board
SendRendered ==
    /\ render.op \in {"board", "message"} /\ render.pc = "done"
    /\ ~render.board.raised
    /\ SendBoard(render.board.value)
    /\ UNCHANGED scheduler

NextRender ==
    \/ Encode \/ Measure
    \/ WrapCall \/ WrapNext \/ WrapReturn
    \/ Board
    \/ Message
    \/ SendGrid \/ SendRendered

SpecRender == InitRender /\ [][NextRender]_vars

\* ------------------------------------------------------------- properties
\* C1: the last_run of a trigger changes only in the step that ends a dispatch of
\* that trigger whose send the transport confirmed, and becomes the time of that
\* step; a dispatch that ends any other way, and every edit, leaves it alone.
C1_LastRunOnlyOnConfirmedSend ==
    [][\A id \in DOMAIN scheduled_messages :
          scheduled_messages'[id].last_run # scheduled_messages[id].last_run
          => \E c \in Callers :
                /\ calls[c].pc = "update"
                /\ calls'[c].pc = "idle"
                /\ calls[c].msg.id = id
                /\ calls[c].success
                /\ calls[c].board # NoBoard
                /\ scheduled_messages'[id].last_run = <<now>>]_vars

\* a trigger that has fired, was edited afterwards, and has a failed dispatch on record
C1_Witness ==
    \E id \in DOMAIN scheduled_messages :
        /\ scheduled_messages[id].last_run # Never
        /\ ~scheduled_messages[id].enabled
        /\ \E i \in DOMAIN message_log : ~message_log[i].success

\* C2: when the scheduled dispatch of a due trigger ends with a failed send, the
\* step that records the failure leaves every trigger as it was and moves the
\* pass on to the next trigger (no second attempt in the pass); and as long as
\* the trigger is neither edited nor sent successfully, every later pass that
\* evaluates it dispatches it again.
C2_FailedSendIsRetriedNextPass ==
    [][\A t \in Threads :
          /\ (/\ calls[t].pc = "log"
              /\ calls[t].board # NoBoard
              /\ ~calls[t].success
              /\ calls'[t] # calls[t])
             => /\ scheduled_messages' = scheduled_messages
                /\ calls'[t].pc = "idle"
                /\ main'[t].pc = "pass"
                /\ main'[t].idx = main[t].idx + 1
          /\ (/\ main[t].pc = "pass"
              /\ main[t].idx <= Len(main[t].messages)
              /\ main[t].messages[main[t].idx].id \in retry
              /\ main'[t] # main[t])
             => /\ main'[t].pc = "call"
                /\ calls'[t].pc = "dispatch"
                /\ calls'[t].msg = main[t].messages[main[t].idx]]_vars

\* a pass dispatches again a trigger whose send failed in an earlier pass
C2_Witness ==
    \E t \in Threads :
        /\ main[t].pc = "call"
        /\ calls[t].msg.id \in retry
        /\ calls[t].msg.last_run = Never
        /\ \E i \in DOMAIN message_log :
              /\ ~message_log[i].success
              /\ message_log[i].message_type = calls[t].msg.message_type

\* the value a call of execute_message hands back in the step that ends it
ReturnValue(c) == IF c = Web THEN calls'[Web].success ELSE calls[c].success

\* C3: every call of execute_message, from the loop or from a manual run,
\* appends exactly one record to the message log before it returns, whatever
\* the outcome, and the success flag of that record is the value the call
\* returns: the steps before the log step append nothing and do not return, the
\* log step appends the one record, the step after it appends nothing.
C3_OneLogRecordPerCall ==
    [][\A c \in Callers :
          calls'[c] # calls[c] =>
             CASE calls[c].pc = "idle" ->
                     /\ message_log' = message_log
                     /\ calls'[c].rec = 0
               [] calls[c].pc \in {"dispatch", "sending"} ->
                     /\ message_log' = message_log
                     /\ calls'[c].pc # "idle"
                     /\ calls'[c].rec = 0
               [] calls[c].pc = "log" ->
                     /\ calls[c].rec = 0
                     /\ Len(message_log') = Len(message_log) + 1
                     /\ SubSeq(message_log', 1, Len(message_log)) = message_log
                     /\ message_log'[Len(message_log')].success = calls[c].success
                     /\ IF calls'[c].pc = "idle"
                        THEN ReturnValue(c) = message_log'[Len(message_log')].success
                        ELSE calls'[c].rec = Len(message_log')
               [] OTHER ->
                     /\ calls[c].pc = "update"
                     /\ calls'[c].pc = "idle"
                     /\ message_log' = message_log
                     /\ calls[c].rec \in DOMAIN message_log
                     /\ ReturnValue(c) = message_log[calls[c].rec].success]_vars

\* a manual run has returned false after a provider raised, an earlier call
\* returned after a confirmed send, and each left its one record
C3_Witness ==
    /\ Len(message_log) = 2
    /\ message_log[1].success
    /\ ~message_log[2].success
    /\ message_log[2].content = "str(e)"
    /\ calls[Web].pc = "idle"
    /\ ~calls[Web].success
    /\ \A t \in Threads : calls[t].pc = "idle"

\* C4: the step that ends a successful scheduled dispatch sets the trigger's
\* last_run to the time of completion, later than the last_run the pass had
\* read; and a pass dispatches a trigger that has fired before only when the
\* next occurrence of its cron expression after the time it last fired is not
\* later than the pass's now.
C4_NoRefireBeforeNextOccurrence ==
    [][\A t \in Threads :
          /\ (calls[t].pc = "update" /\ calls'[t].pc = "idle")
             => LET msg == calls[t].msg IN
                /\ scheduled_messages'[msg.id].last_run = <<now>>
                /\ msg.last_run # Never => now > msg.last_run[1]
          /\ (main[t].pc = "pass" /\ main'[t].pc = "call")
             => LET msg == calls'[t].msg IN
                main[t].seen[msg.id] # Never
                => /\ CronValid(msg.cron_expression)
                   /\ GetNext(msg.cron_expression, main[t].seen[msg.id][1]) <= main[t].now]_vars

\* a pass has evaluated a trigger that fired earlier and has not dispatched it,
\* and a later pass dispatches it
C4_FiredAgain ==
    \E t \in Threads :
        /\ main[t].pc = "call"
        /\ main[t].seen[calls[t].msg.id] # Never
        /\ main[t].now > main[t].seen[calls[t].msg.id][1]
        /\ Len(message_log) >= 1
        /\ message_log[1].success

\* a pass has evaluated a trigger that fired earlier and left it alone
C4_Witness ==
    \E t \in Threads :
        /\ main[t].pc = "pass"
        /\ main[t].idx > Len(main[t].messages)
        /\ Len(main[t].messages) = 1
        /\ main[t].seen[1] # Never
        /\ CronValid(main[t].messages[1].cron_expression)
        /\ main[t].ran = {}

\* the next occurrence of a stored trigger's cron expression, anchored at its
\* last_run, or at the sentinel when it never fired
NextOccurrence(row) ==
    GetNext(row.cron_expression,
            IF row.last_run = Never THEN SENTINEL ELSE row.last_run[1])

\* the triggers that were enabled when pass t read the store and whose next
\* occurrence is not later than the now of the pass
EnabledAndDue(t) ==
    {id \in DOMAIN main[t].read :
        /\ main[t].read[id].enabled
        /\ CronValid(main[t].read[id].cron_expression)
        /\ NextOccurrence(main[t].read[id]) <= main[t].now}

\* C5: a pass dispatches only triggers that were enabled when it read the store
\* and whose next cron occurrence, computed from last_run (from the sentinel
\* when they never fired), is not later than the now taken at the start of the
\* pass; and when the pass is over it has dispatched every such trigger.
C5_DispatchedIffEnabledAndDue ==
    \A t \in Threads :
        main[t].pc \in {"pass", "call"}
        => /\ main[t].ran \subseteq EnabledAndDue(t)
           /\ {main[t].messages[i].id : i \in 1..(main[t].idx - 1)} \cap EnabledAndDue(t)
                  \subseteq main[t].ran
           /\ main[t].idx > Len(main[t].messages) => main[t].ran = EnabledAndDue(t)

\* a pass is over that dispatched a trigger that never fired: its first
\* occurrence after the sentinel is not later than now
C5_Witness ==
    \E t \in Threads :
        /\ main[t].pc = "pass"
        /\ main[t].idx > Len(main[t].messages)
        /\ main[t].ran # {}
        /\ \A id \in main[t].ran : main[t].read[id].last_run = Never

\* a pass is over that read a disabled trigger and dispatched nothing
C5_DisabledSkipped ==
    \E t \in Threads :
        /\ main[t].pc = "pass"
        /\ main[t].idx > Len(main[t].messages)
        /\ main[t].read # <<>>
        /\ ~main[t].read[1].enabled
        /\ main[t].ran = {}

\* what the store shows of a step of caller c's dispatch: the log step appends
\* the one record of the trigger's type, the content rendered and the outcome of
\* the send, and touches no trigger; the step after a confirmed send sets
\* last_run of the trigger to now; no other step of the call touches the store
StoreEffect(c) ==
    calls'[c] # calls[c] =>
       CASE calls[c].pc = "log" ->
               /\ message_log' = Append(message_log,
                      [message_type |-> calls[c].msg.message_type,
                       content |-> calls[c].content, success |-> calls[c].success])
               /\ scheduled_messages' = scheduled_messages
               /\ (calls'[c].pc = "update") = calls[c].success
               /\ (calls'[c].pc = "idle") = ~calls[c].success
         [] calls[c].pc = "update" ->
               /\ message_log' = message_log
               /\ calls[c].success
               /\ calls[c].msg.id \in DOMAIN scheduled_messages
               /\ scheduled_messages' =
                      [scheduled_messages EXCEPT ![calls[c].msg.id].last_run = <<now>>]
         [] OTHER ->
               /\ message_log' = message_log
               /\ scheduled_messages' = scheduled_messages
               /\ calls[c].pc = "dispatch"
                  => /\ calls'[c].msg = calls[c].msg
                     /\ (calls'[c].pc = "sending") = (calls'[c].board # NoBoard)
               /\ calls[c].pc = "sending"
                  => /\ calls'[c].msg = calls[c].msg
                     /\ calls'[c].board = calls[c].board
                     /\ calls'[c].content = calls[c].content

\* a manual run and a scheduled dispatch of triggers of the same type and
\* content, with the same provider outcome, hold the same grid and the same
\* content for the log
SameRendering ==
    \A t \in Threads :
        (/\ calls[Web].p # ""
         /\ calls[t].p = calls[Web].p
         /\ calls[t].msg.message_type = calls[Web].msg.message_type
         /\ calls[t].msg.content = calls[Web].msg.content)
        => /\ calls[t].board = calls[Web].board
           /\ calls[t].content = calls[Web].content

\* C10: a manual run of a trigger has the same observable effect as a scheduled
\* dispatch of it in the same store and provider state: the same grid is sent,
\* one log record of the same type, content and success flag is appended, and
\* last_run is set if and only if the send was confirmed.
C10_ManualRunLikeScheduled ==
    /\ []SameRendering
    /\ [][\A c \in Callers : StoreEffect(c)]_vars

\* a manual run and a scheduled dispatch of the same trigger, both with their
\* grid rendered from the same provider data, the manual one about to set last_run
C10_Witness ==
    \E t \in Threads :
        /\ calls[Web].pc = "update"
        /\ calls[t].pc \in {"sending", "log"}
        /\ calls[t].msg = calls[Web].msg
        /\ calls[t].p = "data"
        /\ calls[Web].p = "data"
        /\ calls[Web].msg.message_type = "weather"

\* a step of primary thread t: a pass goes through its triggers one by one and
\* is left only when each was evaluated and every due one dispatched
WholeTriggerPass(t) ==
    main[t].pc \in {"pass", "call"} =>
       IF main'[t].pc \in {"pass", "call"}
       THEN /\ main'[t].messages = main[t].messages
            /\ main'[t].idx \in {main[t].idx, main[t].idx + 1}
            /\ main'[t].idx <= Len(main[t].messages) + 1
       ELSE /\ main'[t].pc = "sleep"
            /\ main[t].idx = Len(main[t].messages) + 1
            /\ main[t].ran = EnabledAndDue(t)

\* the same of tracker thread u and its tracked flights
WholeFlightPass(u) ==
    tracker[u].pc \in {"pass", "sending"} =>
       IF tracker'[u].pc \in {"pass", "sending"}
       THEN /\ tracker'[u].flights = tracker[u].flights
            /\ tracker'[u].idx \in {tracker[u].idx, tracker[u].idx + 1}
            /\ tracker'[u].idx <= Len(tracker[u].flights) + 1
       ELSE /\ tracker'[u].pc = "sleep"
            /\ tracker[u].idx = Len(tracker[u].flights) + 1

\* C6: within one pass, a failure while evaluating or dispatching one item
\* (provider exception, failed send, malformed cron expression, formatting
\* that raises) never keeps the remaining items of the pass from being
\* evaluated and, if due, dispatched, and never ends the loop, for the triggers
\* of the primary loop and for the flights of the watcher.
C6_ItemFailureIsIsolated ==
    /\ [](\A t \in Threads : main[t].pc # "exited" /\ tracker[t].pc # "exited")
    /\ [][\A t \in Threads : WholeTriggerPass(t) /\ WholeFlightPass(t)]_vars

\* both passes are over: the first trigger has a malformed cron expression and
\* the second was dispatched; formatting the first flight raised and the update
\* of the second was sent
C6_Witness ==
    \E t \in Threads :
        /\ main[t].pc = "pass"
        /\ main[t].idx = 3
        /\ ~CronValid(main[t].messages[1].cron_expression)
        /\ 2 \in main[t].ran
        /\ tracker[t].pc = "pass"
        /\ tracker[t].idx = 3
        /\ ~watch[<<"AA100", 1>>].clean
        /\ watch[<<"UA5", 1>>].sends = 1

\* the pass is over: the send of the first trigger failed and the second was
\* dispatched after it
C6_AfterFailedSend ==
    \E t \in Threads :
        /\ main[t].pc = "pass"
        /\ main[t].idx = 3
        /\ main[t].ran = {1, 2}
        /\ Len(message_log) = 2
        /\ message_log[1].message_type = "weather"
        /\ ~message_log[1].success
        /\ message_log[1].content # "str(e)"
        /\ message_log[2].message_type = "text"

\* the threads of each loop that have been started and have not returned
LivePrimary == {t \in Threads : main[t].pc \notin {"unborn", "exited"}}
LiveTracker == {u \in Threads : tracker[u].pc \notin {"unborn", "exited"}}

\* C7: across any sequence of start() and stop(), at most one primary-loop
\* thread and at most one flight-watcher thread are alive, and at most one
\* send is in flight per loop.
C7_OneThreadPerLoop ==
    /\ Cardinality(LivePrimary) <= 1
    /\ Cardinality(LiveTracker) <= 1
    /\ Cardinality({t \in Threads : calls[t].pc = "sending"}) <= 1
    /\ Cardinality({u \in Threads : tracker[u].pc = "sending"}) <= 1

\* C8: once stop() has lowered the flag, unless start() raises it again, every
\* thread of the primary loop and of the flight watcher eventually returns; and
\* a dispatch that is under way is not abandoned: no thread returns from inside
\* a pass, stop() leaves the activations and the log alone, and every send
\* under way is followed by its log record and the return of the call.
C8_StopLetsLoopsExit ==
    /\ (~running) ~> (running \/ (LivePrimary = {} /\ LiveTracker = {}))
    /\ \A t \in Threads :
          /\ (calls[t].pc # "idle") ~> (calls[t].pc = "idle")
          /\ (tracker[t].pc = "sending") ~> (tracker[t].pc = "pass")
    /\ [][/\ running /\ ~running' => calls' = calls /\ store' = store
          /\ \A t \in Threads :
                /\ main'[t].pc = "exited" => main[t].pc \in {"loop", "exited"}
                /\ tracker'[t].pc = "exited" => tracker[t].pc \in {"loop", "sleep", "exited"}
                /\ (calls[t].pc = "sending" /\ calls'[t] # calls[t])
                   => calls'[t].pc = "log"
                /\ (calls[t].pc = "log" /\ calls'[t] # calls[t])
                   => Len(message_log') = Len(message_log) + 1
                /\ (calls[t].pc = "update" /\ calls'[t] # calls[t])
                   => scheduled_messages'[calls[t].msg.id].last_run = <<now>>]_vars

\* the flag is down and the tracker has returned while a dispatch of the primary
\* loop, its send confirmed and logged, is about to set last_run
C8_Witness ==
    /\ ~running
    /\ LiveTracker = {}
    /\ \E t \in Threads :
          /\ main[t].pc = "call"
          /\ calls[t].pc = "update"
          /\ message_log[calls[t].rec].success

\* the flag is down, every thread has returned, and a dispatch has left its
\* record and set last_run
C8_AllReturned ==
    /\ ~running
    /\ LivePrimary = {}
    /\ LiveTracker = {}
    /\ main[1].pc = "exited"
    /\ main[2].pc = "unborn"
    /\ Len(message_log) >= 1
    /\ message_log[1].message_type = "text"
    /\ message_log[1].success
    /\ scheduled_messages[1].last_run # Never

\* every send of the model so far was confirmed by the transport
TransportSucceeds == \A i \in DOMAIN message_log : message_log[i].success

\* C9: with a transport that succeeds, the updates the flight watcher has
\* dispatched for a key are as many as the observations of the key whose
\* status differs from the observation before, counting the first.
C9_OneUpdatePerStatusChange ==
    TransportSucceeds => \A k \in Keys : watch[k].sends = watch[k].changes

\* the same for the keys whose updates were all formatted without an exception
C9_WhereFormattingWorked ==
    \A k \in Keys : watch[k].clean => watch[k].sends = watch[k].changes

\* three observations of a key, the second identical to the first, the third
\* different, and two updates
C9_ThreeObservations ==
    \E k \in Keys :
        /\ watch[k].clean
        /\ watch[k].obs = 3
        /\ watch[k].changes = 2
        /\ watch[k].sends = 2
        /\ Len(message_log) = 2

\* C11: when the provider of a trigger has no data or raises, nothing is sent,
\* and the record the dispatch is about to write has success false and carries
\* diagnostic content (content that is not empty).
C11_ProviderFailureIsLogged ==
    \A c \in Callers :
        (calls[c].pc = "log" /\ calls[c].p \in {"none", "raise"})
        => /\ calls[c].board = NoBoard
           /\ ~calls[c].success
           /\ calls[c].content # ""

\* the same without the diagnostic content: nothing is sent and success is false
C11_ProviderFailureSendsNothing ==
    \A c \in Callers :
        (calls[c].pc = "log" /\ calls[c].p \in {"none", "raise"})
        => /\ calls[c].board = NoBoard
           /\ ~calls[c].success

\* the record of a weather trigger whose fetch returned nothing: its content is empty
C11_EmptyRecord ==
    \E i \in DOMAIN message_log :
        /\ message_log[i].message_type = "weather"
        /\ ~message_log[i].success
        /\ message_log[i].content = ""

\* C12: a pass that comes to a trigger whose cron expression is invalid skips
\* it: nothing is dispatched, the store is left as it was, and the pass goes on
\* to the next trigger; no step of the scheduler changes an enabled flag; and
\* every pass reads all enabled triggers again, the invalid ones included.
C12_InvalidCronSkippedNotDisabled ==
    [][/\ \A t \in Threads :
             /\ (/\ main[t].pc = "pass"
                 /\ main[t].idx <= Len(main[t].messages)
                 /\ ~CronValid(main[t].messages[main[t].idx].cron_expression)
                 /\ main'[t] # main[t])
                => /\ calls' = calls
                   /\ store' = store
                   /\ main'[t].pc = "pass"
                   /\ main'[t].idx = main[t].idx + 1
             /\ (main[t].pc = "loop" /\ main'[t].pc = "pass")
                => \A id \in DOMAIN scheduled_messages :
                      scheduled_messages[id].enabled
                      => \E i \in DOMAIN main'[t].messages :
                            main'[t].messages[i] = scheduled_messages[id]
       /\ \A id \in DOMAIN scheduled_messages :
             scheduled_messages'[id].enabled # scheduled_messages[id].enabled
             => main' = main /\ calls' = calls]_vars

\* a pass made after the clock moved on has skipped a trigger with an invalid
\* expression, which is still enabled in the store and never fired
C12_Witness ==
    \E t \in Threads :
        /\ main[t].pc = "pass"
        /\ main[t].now > 1
        /\ main[t].idx = 2
        /\ ~CronValid(main[t].messages[1].cron_expression)
        /\ main[t].ran = {}
        /\ scheduled_messages[1].enabled
        /\ scheduled_messages[1].last_run = Never
        /\ message_log = <<>>

\* at least two occurrences of the trigger's expression lie between its anchor
\* and the time t
MissedSeveral(msg, t) ==
    /\ CronValid(msg.cron_expression)
    /\ GetNext(msg.cron_expression, NextOccurrence(msg)) <= t

\* C13: a pass dispatches a trigger at most once, however many occurrences were
\* missed; and the step that ends a successful scheduled dispatch leaves the
\* trigger with the first occurrence after the time of the dispatch as its next
\* one, which is later than now, so that no missed occurrence is replayed.
C13_MissedWindowsNotReplayed ==
    [][\A t \in Threads :
          /\ (main[t].pc = "pass" /\ main'[t].pc = "call")
             => calls'[t].msg.id \notin main[t].ran
          /\ (calls[t].pc = "update" /\ calls'[t].pc = "idle")
             => LET after == [calls[t].msg EXCEPT
                                 !.last_run = scheduled_messages'[calls[t].msg.id].last_run]
                IN /\ NextOccurrence(after) = GetNext(calls[t].msg.cron_expression, now)
                   /\ NextOccurrence(after) > now
                   /\ NextOccurrence(after) > main[t].now]_vars

\* a pass at minute 3 dispatched a trigger that had never fired and had missed
\* the occurrences of minutes 1 and 2; the one send succeeded, and a later pass
\* of the same minute has left the trigger alone
C13_Witness ==
    \E t \in Threads :
        /\ main[t].pc = "pass"
        /\ main[t].idx = 2
        /\ main[t].now = 3
        /\ main[t].ran = {}
        /\ Len(main[t].messages) = 1
        /\ main[t].messages[1].cron_expression = "* * * * *"
        /\ main[t].messages[1].last_run = <<3>>
        /\ MissedSeveral([main[t].messages[1] EXCEPT !.last_run = Never], 3)
        /\ Len(message_log) = 1
        /\ message_log[1].success

\* C14: the dispatch of a trigger whose content-type tag is outside the closed
\* set sends nothing, writes its record with success false, returns false in
\* the step that writes it, leaves every trigger as it was, and, when the
\* primary loop made it, hands the pass on to the next trigger.
C14_UnknownTypeSkipped ==
    [][\A c \in Callers :
          (/\ calls[c].pc # "idle"
           /\ calls[c].msg.message_type \notin MessageTypes
           /\ calls'[c] # calls[c])
          => /\ calls[c].pc \in {"dispatch", "log"}
             /\ scheduled_messages' = scheduled_messages
             /\ calls[c].pc = "dispatch"
                => /\ calls'[c].pc = "log"
                   /\ calls'[c].board = NoBoard
                   /\ ~calls'[c].success
             /\ calls[c].pc = "log"
                => /\ calls'[c].pc = "idle"
                   /\ ~ReturnValue(c)
                   /\ ~message_log'[Len(message_log')].success
                   /\ message_log'[Len(message_log')].message_type
                         = calls[c].msg.message_type
                   /\ c # Web => /\ main'[c].pc = "pass"
                                 /\ main'[c].idx = main[c].idx + 1]_vars

\* the pass has dispatched a trigger of an unknown type, which left its record
\* and no last_run, and has gone on
C14_Witness ==
    \E t \in Threads :
        /\ main[t].pc = "pass"
        /\ main[t].idx = 2
        /\ main[t].ran = {1}
        /\ main[t].messages[1].message_type = "hologram"
        /\ scheduled_messages[1].last_run = Never
        /\ Len(message_log) = 1
        /\ message_log[1].message_type = "hologram"
        /\ ~message_log[1].success

C19_DisplayLengthIsCodeCount ==
    (render.op = "encode" /\ render.pc = "done")
    => /\ ~render.codes.raised
       /\ render.length = Len(render.codes.value)

\* the same for the texts that upper() leaves at their length and whose color
\* tokens are spelled in letters that upper() takes to the name
C19_WhereUpperKeepsSpelling ==
    (/\ render.op = "encode" /\ render.pc = "done"
     /\ \A i \in DOMAIN render.text : render.text[i] \notin {"eszett", "kelvin"})
    => /\ ~render.codes.raised
       /\ render.length = Len(render.codes.value)

\* a sharp s measures one cell and encodes to two codes
C19_SharpS ==
    /\ render.pc = "done"
    /\ render.text = <<"eszett">>
    /\ render.length = 1
    /\ render.codes = Returns(<<19, 19>>)

\* a text of color tokens in mixed case, braces and unknown characters has been
\* encoded and measured
C19_MixedText ==
    /\ render.pc = "done"
    /\ render.text = <<"{", "{", "r", "E", "d", "}", "~", "}">>
    /\ render.length = 4
    /\ render.codes = Returns(<<0, 63, 0, 0>>)

\* the result is a board: ROWS rows of COLS codes
IsBoard(result) ==
    /\ ~result.raised
    /\ DOMAIN result.value = 1..ROWS
    /\ \A row \in 1..ROWS :
          /\ DOMAIN result.value[row] = 1..COLS
          /\ \A col \in 1..COLS : result.value[row][col] \in 0..71

\* C17: for every text and both values of center, format_message returns a
\* board of exactly 6 rows of 22 codes; so does create_board for every list of
\* lines, of any number and any length.
C17_AlwaysSixByTwentyTwo ==
    (render.op \in {"board", "message"} /\ render.pc = "done")
    => IsBoard(render.board)

\* whenever format_message or create_board returns, it returns such a board
C17_SixByTwentyTwoWhenReturned ==
    (render.op \in {"board", "message"} /\ render.pc = "done" /\ ~render.board.raised)
    => IsBoard(render.board)

\* format_message has raised: a word of the message is BLACK in braces spelled
\* with the Kelvin sign
C17_MessageRaised ==
    /\ render.op = "message" /\ render.pc = "done"
    /\ render.text = <<" ", "{", "B", "L", "A", "C", "kelvin", "}">>
    /\ render.board.raised

\* create_board has returned a board for more lines than rows, one of them
\* longer than a row
C17_LongListReturned ==
    /\ render.op = "board" /\ render.pc = "done"
    /\ Len(render.lines) > ROWS
    /\ \E i \in 1..ROWS : Len(render.lines[i]) > COLS
    /\ IsBoard(render.board)

\* format_message has returned a board for a message of more lines than rows
C17_LongMessageReturned ==
    /\ render.op = "message" /\ render.pc = "done"
    /\ Len(wrap_text(render.text, COLS)) > ROWS
    /\ IsBoard(render.board)

\* the display cells of a line: the codes the board is given for it
Cells(line) == Len(text_to_codes(line).value)

\* the line is one of the words of the text, alone and as it was given
IsWordOf(line, words) == \E k \in DOMAIN words : words[k] = line

\* C18: for every text and every width, no line that wrap_text returns takes
\* more than width display cells, except a line that is a single word which
\* itself takes more than width; that word is alone on its line, unmodified.
C18_NoLineExceedsWidth ==
    (render.op = "wrap" /\ render.pc = "done")
    => \A i \in DOMAIN render.wrapped :
          \/ Cells(render.wrapped[i]) <= render.width
          \/ IsWordOf(render.wrapped[i], render.wrap.words)

\* the same measured by get_display_length, as wrap_text measures
C18_NoLineExceedsWidthAsMeasured ==
    (render.op = "wrap" /\ render.pc = "done")
    => \A i \in DOMAIN render.wrapped :
          \/ get_display_length(render.wrapped[i]) <= render.width
          \/ /\ IsWordOf(render.wrapped[i], render.wrap.words)
             /\ get_display_length(render.wrapped[i]) > render.width

\* wrapped at 4, a word with a sharp s and a letter share a line of five cells
C18_SharpSLine ==
    /\ render.op = "wrap" /\ render.pc = "done"
    /\ render.width = 4
    /\ render.wrapped = <<<<"eszett", "E", " ", "E">>>>
    /\ Cells(render.wrapped[1]) = 5

\* wrapped at 2, a word of three cells is alone on its line between full lines
C18_LongWordAlone ==
    /\ render.op = "wrap" /\ render.pc = "done"
    /\ render.width = 2
    /\ render.wrapped = <<<<"E">>, <<"E", "E", "E">>, <<"{", "r", "E", "d", "}">>>>

\* the word the loop of wrap_text is at fits the current line
Fits(w, width) ==
    w.current_length + get_display_length(w.words[w.idx])
        + (IF w.current_line # <<>> THEN 1 ELSE 0) <= width

\* C20: wrap_text is greedy.  Each iteration takes the next word: if
\* current_length + word_length + (1 if the line is not empty) <= width, the
\* word is appended to the current line and no line is flushed; otherwise the
\* current line is flushed (if it holds a word) and the word starts a new one.
\* The tracked current_length is always the display length of the words of the
\* current line joined by one blank, and every line returned is its words
\* joined by exactly one blank.
C20_GreedyWrap ==
    [][/\ (render.pc = "loop" /\ render'.pc = "loop" /\ render' # render)
          => LET w == render.wrap
                 word == w.words[w.idx]
             IN  /\ render'.wrap.words = w.words
                 /\ render'.wrap.idx = w.idx + 1
                 /\ Fits(w, render.width)
                    => /\ render'.wrap.current_line = Append(w.current_line, word)
                       /\ render'.wrap.lines = w.lines
                 /\ ~Fits(w, render.width)
                    => /\ render'.wrap.current_line = <<word>>
                       /\ render'.wrap.lines =
                              IF w.current_line = <<>> THEN w.lines
                              ELSE Append(w.lines, join(w.current_line))
       /\ render'.pc = "loop"
          => render'.wrap.current_length =
                 get_display_length(join(render'.wrap.current_line))
       /\ (render.pc = "loop" /\ render'.pc = "done")
          => /\ render'.wrapped =
                    IF render.wrap.current_line = <<>> THEN render.wrap.lines
                    ELSE Append(render.wrap.lines, join(render.wrap.current_line))
             /\ \A i \in DOMAIN render'.wrapped :
                    render'.wrapped[i] = join(split(render'.wrapped[i]))
             /\ Concat([i \in DOMAIN render'.wrapped |-> split(render'.wrapped[i])])
                    = render.wrap.words]_vars

\* in the loop, a line has been flushed and the current line holds two words that
\* fill the width exactly: the second was appended on the tie
C20_Witness ==
    /\ render.op = "wrap" /\ render.pc = "loop"
    /\ render.wrap.lines # <<>>
    /\ Len(render.wrap.current_line) = 2
    /\ render.wrap.current_length = render.width
    /\ render.wrap.idx <= Len(render.wrap.words)
    /\ ~Fits(render.wrap, render.width)

\* the lines of a provider, character by character
SpelledLines(lines) == [i \in DOMAIN lines |-> Chars(lines[i])]

\* C16: the board execute_message sends for a trigger of type "text" is
\* format_message(content, center=True), the content wrapped and centered
\* vertically; for every other type it is create_board(lines, center=True) of
\* the lines the provider formatted, line by line, not wrapped again.
C16_TextWrappedLinesAsGiven ==
    \A c \in Callers :
        calls[c].pc = "sending"
        => IF calls[c].msg.message_type = "text"
           THEN Grid(calls[c].board) =
                    format_message(Chars(IF calls[c].msg.content = None THEN ""
                                         ELSE calls[c].msg.content), TRUE)
           ELSE Grid(calls[c].board) =
                    create_board(SpelledLines(FormatForBoard(calls[c].msg.message_type)),
                                 TRUE)

\* the lines of the weather provider are being sent: SEATTLE in the first row
\* and 55 RAIN in the third, each centered, where format_message would have put
\* them in one row
C16_Witness ==
    \E c \in Callers :
        /\ calls[c].pc = "sending"
        /\ calls[c].msg.message_type = "weather"
        /\ ~Grid(calls[c].board).raised
        /\ Grid(calls[c].board).value[1][8] = 19
        /\ Grid(calls[c].board).value[1][14] = 5
        /\ Grid(calls[c].board).value[2] = [col \in 1..COLS |-> 0]
        /\ Grid(calls[c].board).value[3][8] = 31
        /\ Grid(calls[c].board) #
               format_message(Chars(JoinLines(FormatForBoard("weather"))), TRUE)

\* the text HI is being sent: wrapped to one line, in the third row, centered
C16_TextCentered ==
    \E c \in Callers :
        /\ calls[c].pc = "sending"
        /\ calls[c].msg.message_type = "text"
        /\ Grid(calls[c].board) =
               Returns([row \in 1..ROWS |->
                          [col \in 1..COLS |->
                              IF row = 3 /\ col = 11 THEN 8
                              ELSE IF row = 3 /\ col = 12 THEN 9 ELSE 0]])

\* the codes of a line that the board has room for: codes[:COLS]
Kept(line) ==
    LET codes == text_to_codes(line).value
    IN  SubSeq(codes, 1, IF Len(codes) < COLS THEN Len(codes) ELSE COLS)

\* the rows of the board that create_board fills from lines
RowsUsed(lines) == 1..(IF Len(lines) < ROWS THEN Len(lines) ELSE ROWS)

\* C21: in a board that create_board returns, a line whose encoding has len
\* cells after truncation to 22 fills columns first .. first+len-1 of its row
\* (columns counted from 0), where first is floor((22-len)/2) with center and 0
\* without; every other cell of the row is blank, and with center the blank
\* cells on the right are as many as those on the left, plus one when 22-len
\* is odd.
C21_LineCenteredInRow ==
    (render.op = "board" /\ render.pc = "done" /\ ~render.board.raised)
    => \A r \in RowsUsed(render.lines) :
          LET kept == Kept(render.lines[r])
              len == Len(kept)
              first == IF render.center THEN (COLS - len) \div 2 ELSE 0
              right == COLS - len - first
          IN  /\ \A col \in 0..(COLS - 1) :
                    render.board.value[r][col + 1] =
                        IF col \in first..(first + len - 1)
                        THEN kept[col - first + 1] ELSE 0
              /\ render.center => right = first + ((COLS - len) % 2)

\* a single line of three cells has been centered: nine blank cells on its left,
\* ten on its right
C21_Witness ==
    /\ render.op = "board" /\ render.pc = "done" /\ render.center
    /\ render.lines = <<<<"A", "E", "E">>>>
    /\ render.board.value[1][9] = 0
    /\ render.board.value[1][10] = 1
    /\ render.board.value[1][12] = 5
    /\ render.board.value[1][13] = 0

\* a single line of two cells has been centered from column 10 (counted from 0)
C21_EvenLine ==
    /\ render.op = "board" /\ render.pc = "done" /\ render.center
    /\ render.lines = <<<<"A", "E">>>>
    /\ render.board.value[1][10] = 0
    /\ render.board.value[1][11] = 1
    /\ render.board.value[1][12] = 5
    /\ render.board.value[1][13] = 0

\* the codes of the row that are not blank, in order
Inked(row) == SelectSeq(row, LAMBDA code : code # 0)

\* C22: create_board uses the first 6 lines only: line i is in row i, with the
\* first 22 codes of its encoding and no others; the lines after the sixth are
\* dropped and do not make the call fail, whatever they hold; every row beyond
\* the lines supplied is blank throughout.
C22_FirstSixLinesFirst22Codes ==
    (render.op = "board" /\ render.pc = "done")
    => /\ render.board.raised
          => \E r \in RowsUsed(render.lines) : text_to_codes(render.lines[r]).raised
       /\ ~render.board.raised
          => \A row \in 1..ROWS :
                IF row <= Len(render.lines)
                THEN Inked(render.board.value[row]) = Inked(Kept(render.lines[row]))
                ELSE \A col \in 1..COLS : render.board.value[row][col] = 0

\* seven lines were given: the sixth, too long for a row, shows its first 22
\* codes in the sixth row, and the seventh is on no row
C22_Witness ==
    /\ render.op = "board" /\ render.pc = "done" /\ ~render.board.raised
    /\ Len(render.lines) = 7
    /\ render.lines[1] = <<>>
    /\ Len(render.lines[6]) = COLS + 1
    /\ render.lines[7] = <<"{", "r", "E", "d", "}", "E">>
    /\ render.board.value[6] = [col \in 1..COLS |-> 5]
    /\ \A row \in 1..ROWS : \A col \in 1..COLS : render.board.value[row][col] # 63

\* a seventh line that cannot be encoded is dropped without error
C22_BadSeventhLine ==
    /\ render.op = "board" /\ render.pc = "done" /\ ~render.board.raised
    /\ Len(render.lines) = 7
    /\ text_to_codes(render.lines[7]).raised

\* two lines were given: the rows from the third on are blank
C22_TwoLines ==
    /\ render.op = "board" /\ render.pc = "done" /\ ~render.board.raised
    /\ Len(render.lines) = 2
    /\ render.board.value[2][11] = 63
    /\ \A row \in 3..ROWS : render.board.value[row] = [col \in 1..COLS |-> 0]

\* C23: format_message shows at most the first 6 lines of the wrapped text.
\* With center and n < 6 wrapped lines, wrapped line i (counted from 0) is in
\* row floor((6-n)/2)+i, the rows before and after are blank, and the padding
\* pushes no wrapped line off the board; without center, or with 6 lines or
\* more, wrapped line i is in row i.
C23_WrappedLinesInRows ==
    (render.op = "message" /\ render.pc = "done" /\ ~render.board.raised)
    => LET wrapped == wrap_text(render.text, COLS)
           n == IF Len(wrapped) < ROWS THEN Len(wrapped) ELSE ROWS
           top == IF render.center /\ Len(wrapped) < ROWS THEN (ROWS - n) \div 2 ELSE 0
       IN  /\ top + n <= ROWS
           /\ \A row \in 0..(ROWS - 1) :
                 IF row - top \in 0..(n - 1)
                 THEN /\ wrapped[row - top + 1] # <<>>
                      /\ Inked(render.board.value[row + 1])
                            = Inked(Kept(wrapped[row - top + 1]))
                 ELSE render.board.value[row + 1] = [col \in 1..COLS |-> 0]

\* a centered message of three lines is in the second, third and fourth row
\* (rows 1, 2, 3 counted from 0): floor((6-3)/2) = 1 blank row above, two below
C23_Witness ==
    /\ render.op = "message" /\ render.pc = "done" /\ render.center
    /\ ~render.board.raised
    /\ Len(wrap_text(render.text, COLS)) = 3
    /\ Inked(render.board.value[1]) = <<>>
    /\ Inked(render.board.value[2]) = [i \in 1..13 |-> IF i = 13 THEN 63 ELSE 5]
    /\ Len(Inked(render.board.value[3])) = 12
    /\ Len(Inked(render.board.value[4])) = 12
    /\ Inked(render.board.value[5]) = <<>>
    /\ Inked(render.board.value[6]) = <<>>

\* a message of seven lines shows its first six, one per row, centered or not
C23_SevenLines ==
    /\ render.op = "message" /\ render.pc = "done" /\ ~render.board.raised
    /\ Len(wrap_text(render.text, COLS)) = 7
    /\ \A row \in 1..ROWS : Len(Inked(render.board.value[row])) = 12

\* a message of two lines that is not centered is in the first two rows
C23_NotCentered ==
    /\ render.op = "message" /\ render.pc = "done" /\ ~render.center
    /\ ~render.board.raised
    /\ Len(wrap_text(render.text, COLS)) = 2
    /\ Len(Inked(render.board.value[1])) = 12
    /\ Len(Inked(render.board.value[2])) = 12

\* the one code of a character that is no part of a token: that of its capital
\* if the table has it, blank otherwise
OneCode(ch) ==
    IF Len(UpperChar(ch)) = 1 /\ UpperChar(ch)[1] \in DOMAIN CHAR_CODES
    THEN CHAR_CODES[UpperChar(ch)[1]] ELSE 0

\* one code for each token of the text as given and one for each other character
OnePerCell(text) ==
    Concat([i \in 1..Len(text) |->
               IF PatternMatch(text, i) # {}
               THEN <<SPECIAL_CODES[CHOOSE n \in PatternMatch(text, i) : TRUE]>>
               ELSE IF \E m \in 1..(i - 1) :
                           PatternMatch(text, m) # {} /\ i <= MatchEnd(text, m)
               THEN <<>>
               ELSE <<OneCode(text[i])>>])

\* C24: text_to_codes returns exactly one code for each {NAME} of the text whose
\* NAME, in any case, is one of the names of SPECIAL_CODES, and that code is the
\* code of the name; for every other character of the text it returns exactly
\* one code.
C24_OneCodePerTokenAndCharacter ==
    (render.op = "encode" /\ render.pc = "done")
    => /\ ~render.codes.raised
       /\ render.codes.value = OnePerCell(render.text)

\* the same for the texts without a sharp s and without a Kelvin sign
C24_OneCodePerCellPlainLetters ==
    (/\ render.op = "encode" /\ render.pc = "done"
     /\ \A i \in DOMAIN render.text : render.text[i] \notin {"eszett", "kelvin"})
    => /\ ~render.codes.raised
       /\ render.codes.value = OnePerCell(render.text)

\* {RED}HI has been encoded to three codes and measures three cells
C24_RedHi ==
    /\ render.op = "encode" /\ render.pc = "done"
    /\ render.text = <<"{", "R", "E", "D", "}", "H", "I">>
    /\ render.codes = Returns(<<63, 8, 9>>)
    /\ render.length = 3

\* a sharp s after a color token in mixed case has been encoded: one code for
\* the token, two for the one character
C24_TokenThenSharpS ==
    /\ render.op = "encode" /\ render.pc = "done"
    /\ render.text = <<"{", "r", "E", "d", "}", "eszett">>
    /\ render.codes = Returns(<<63, 19, 19>>)

\* each character of the text alone: blank if the table lacks its capital
Literal(text) == [i \in 1..Len(text) |-> OneCode(text[i])]

\* no {NAME} of SPECIAL_CODES, in any case, is in the text
NoToken(text) == \A i \in DOMAIN text : PatternMatch(text, i) = {}

\* C25: text_to_codes is total: for every text it returns codes and never
\* raises; a character outside the table gives code 0, and braces that do not
\* make a token of the closed set are encoded one character at a time, each
\* brace giving code 0.
C25_EncodeIsTotal ==
    (render.op = "encode" /\ render.pc = "done")
    => /\ ~render.codes.raised
       /\ \A i \in DOMAIN render.text :
              (render.text[i] \in {"{", "}", "~"} /\ NoToken(render.text)
               /\ \A j \in DOMAIN render.text : render.text[j] # "eszett")
              => render.codes.value[i] = 0

\* the same for the texts without a Kelvin sign
C25_TotalWithoutKelvinSign ==
    (/\ render.op = "encode" /\ render.pc = "done"
     /\ \A i \in DOMAIN render.text : render.text[i] # "kelvin")
    => /\ ~render.codes.raised
       /\ NoToken(render.text) /\ (\A j \in DOMAIN render.text : render.text[j] # "eszett")
          => render.codes.value = Literal(render.text)

\* text_to_codes has raised on BLACK in braces spelled with the Kelvin sign
C25_KelvinRaised ==
    /\ render.op = "encode" /\ render.pc = "done"
    /\ render.text = <<"{", "B", "L", "A", "C", "kelvin", "}">>
    /\ render.codes.raised

\* a color name between braces that do not close it, and a character outside the
\* table: the braces and that character are blank, the letters are themselves
C25_BrokenBraces ==
    /\ render.op = "encode" /\ render.pc = "done"
    /\ render.text = <<"{", "r", "E", "d", "~", "}">>
    /\ render.codes = Returns(<<0, 18, 5, 4, 0, 0>>)

\* the words of the lines, line after line
WordsOf(lines) == Concat([i \in DOMAIN lines |-> split(lines[i])])

\* C30: wrap_text loses and reorders nothing: for every text and width the
\* words of the lines it returns, read in order, are the words of the text in
\* their order; no line it returns is empty; a text without words gives no
\* lines.
C30_WrapKeepsEveryWord ==
    (render.op = "wrap" /\ render.pc = "done")
    => /\ WordsOf(render.wrapped) = split(render.text)
       /\ \A i \in DOMAIN render.wrapped : render.wrapped[i] # <<>>
       /\ split(render.text) = <<>> => render.wrapped = <<>>

\* four different words, blanks doubled between them, have been wrapped at 3 into
\* three lines
C30_Witness ==
    /\ render.op = "wrap" /\ render.pc = "done"
    /\ render.width = 3
    /\ render.text = <<" ", " ", "E", " ", " ", "{", "r", "E", "d", "}", " ", " ",
                       "E", "E", "E", " ", " ", "eszett", "E">>
    /\ render.wrapped = <<<<"E", " ", "{", "r", "E", "d", "}">>, <<"E", "E", "E">>,
                          <<"eszett", "E">>>>

\* a text of blanks alone has been wrapped into no lines
C30_BlankText ==
    /\ render.op = "wrap" /\ render.pc = "done"
    /\ render.text = <<" ", " ">>
    /\ render.wrapped = <<>>

\* wrapped at 0, every word is alone on a line
C30_WidthZero ==
    /\ render.op = "wrap" /\ render.pc = "done"
    /\ render.width = 0
    /\ Len(render.wrapped) = 4
    /\ render.wrapped = split(render.text)

\* C26: send_board refuses every board that has not exactly 6 rows of exactly
\* 22 columns: it raises its error and makes no request to the device; and it
\* never refuses a board that create_board or format_message returned.
C26_OnlySixByTwentyTwoIsSent ==
    render.pc = "sent"
    => /\ (\/ Len(render.grid) # 6
           \/ \E row \in DOMAIN render.grid : Len(render.grid[row]) # 22)
          => render.sent = "ValueError" /\ render.requests = 0
       /\ render.op \in {"board", "message"}
          => render.sent # "ValueError" /\ render.requests = 1

\* a board of 6 rows whose last row alone has 23 columns has been refused
C26_Witness ==
    /\ render.op = "send" /\ render.pc = "sent"
    /\ Len(render.grid) = 6
    /\ Len(render.grid[1]) = 22
    /\ Len(render.grid[6]) = 23
    /\ render.sent = "ValueError"
    /\ render.requests = 0

\* a board that format_message returned for a message of seven lines has gone
\* out in a request
C26_RenderedSent ==
    /\ render.op = "message" /\ render.pc = "sent"
    /\ Len(wrap_text(render.text, COLS)) = 7
    /\ render.sent = "True"
    /\ render.requests = 1

\* a board of 7 rows has been refused, and a board of 6 rows of 22 columns from
\* the caller has been sent
C26_SevenRows ==
    /\ render.op = "send" /\ render.pc = "sent"
    /\ Len(render.grid) = 7
    /\ render.sent = "ValueError"

\* C27: when the send attempt of a status update returns, successful or not,
\* the step that logs it sets the remembered status of the key to the status
\* observed; an update goes out only for a status that differs from the
\* remembered one, so an update whose send failed is not sent again while the
\* status stays the same.  When the fetch gives nothing, or formatting or
\* sending raises, the remembered statuses are left as they were.
C27_StatusRememberedAfterAttempt ==
    [][\A u \in Threads :
          LET flight == tracker[u].flights[tracker[u].idx]
              key == flight_key(flight)
          IN
          /\ (tracker[u].pc = "sending" /\ tracker'[u] # tracker[u])
             => IF Len(message_log') = Len(message_log) + 1
                THEN last_flight_status' =
                         [last_flight_status EXCEPT ![key] = tracker[u].status]
                ELSE /\ message_log' = message_log
                     /\ last_flight_status' = last_flight_status
          /\ (/\ tracker[u].pc = "pass"
              /\ tracker[u].idx <= Len(tracker[u].flights)
              /\ tracker'[u] # tracker[u])
             => /\ last_flight_status' = last_flight_status
                /\ tracker'[u].pc = "sending"
                   => tracker'[u].status # last_flight_status[key]
                /\ (watch'[key].obs = watch[key].obs + 1
                    /\ watch'[key].prev = last_flight_status[key])
                   => tracker'[u].pc = "pass"]_vars

\* the only update for a flight failed to reach the board; the flight was then
\* seen again in the same status, which is the remembered one, and nothing more
\* was dispatched
C27_Witness ==
    \E k \in Keys :
        /\ Len(message_log) = 1
        /\ ~message_log[1].success
        /\ watch[k].obs = 2
        /\ watch[k].changes = 1
        /\ watch[k].sends = 1
        /\ watch[k].clean
        /\ last_flight_status[k] = watch[k].prev
        /\ \A u \in Threads : tracker[u].pc # "sending"

\* an update was dispatched and the send raised: nothing is logged and no status
\* is remembered
C27_SendRaised ==
    \E k \in Keys :
        /\ watch[k].sends = 1
        /\ ~watch[k].clean
        /\ message_log = <<>>
        /\ last_flight_status[k] = None
        /\ \A u \in Threads : tracker[u].pc # "sending"

\* the calls of execute_message that write their record in the step
Logging == {c \in Callers : calls[c].pc = "log" /\ calls'[c].pc # "log"}

C29_FlagReadBetweenPasses ==
    [][\A t \in Threads :
          main'[t] # main[t] =>
             CASE main[t].pc = "loop" ->
                     IF main'[t].pc = "pass" THEN running
                     ELSE main'[t].pc = "exited" /\ ~running'
               [] main[t].pc = "pass" /\ main[t].idx <= Len(main[t].messages) ->
                     LET msg == main[t].messages[main[t].idx] IN
                     IF CronValid(msg.cron_expression)
                        /\ GetNext(msg.cron_expression,
                                   IF msg.last_run = Never THEN SENTINEL
                                   ELSE msg.last_run[1]) <= main[t].now
                     THEN /\ main'[t].pc = "call"
                          /\ calls'[t].pc = "dispatch"
                          /\ calls'[t].msg = msg
                     ELSE /\ main'[t].pc = "pass"
                          /\ main'[t].idx = main[t].idx + 1
               [] main[t].pc = "pass" -> main'[t].pc = "sleep"
               [] main[t].pc = "call" ->
                     /\ main'[t].pc = "pass"
                     /\ main'[t].idx = main[t].idx + 1
                     /\ main'[t].messages = main[t].messages
               [] main[t].pc = "sleep" -> main'[t].pc = "loop"
               [] main[t].pc = "unborn" -> main'[t].pc = "loop" /\ running'
               [] OTHER -> FALSE]_vars

\* stop() has been called during a pass over two due triggers: the flag is down,
\* the first trigger has been dispatched and logged, and the pass has come to
\* the second
C29_Witness ==
    \E t \in Threads :
        /\ ~running
        /\ main[t].pc = "pass"
        /\ Len(main[t].messages) = 2
        /\ main[t].idx = 2
        /\ IsDue(main[t].messages[2], main[t].now)
        /\ Len(message_log) >= 1

\* with the flag down, the second trigger of the pass is being dispatched, and the
\* record of the first is in the log
C29_DispatchedAfterStop ==
    \E t \in Threads :
        /\ ~running
        /\ main[t].pc = "call"
        /\ main[t].idx = 2
        /\ calls[t].pc = "sending"
        /\ calls[t].msg.id = 2
        /\ \E i \in DOMAIN message_log : message_log[i].message_type = "weather"
====
